--------------------------- MODULE MCShmChat ---------------------------
(* Small instances of ShmChat. *)
EXTENDS ShmChat, TLC

CONSTANTS c1, c2, anna, boris

MCClients  == {c1, c2}
MCNames    == {anna, boris}
MCNameOf   == c1 :> anna @@ c2 :> boris
MCSameName == c1 :> anna @@ c2 :> anna
=========================================================================
