----------------------------- MODULE FileStore ------------------------------
(***************************************************************************)
(* What the image tools promise: the image is a map from file names to     *)
(* contents.  One command at a time asks for one change, and the change    *)
(* happens completely or not at all, whatever stops the command.  The      *)
(* promise holds until the image is damaged.                               *)
(***************************************************************************)
CONSTANTS Names, Contents, NoFile, NoRequest

VARIABLES files,    \* Names -> Contents, or NoFile
          request,  \* the command that is running
          intact    \* the promise still holds

vars == <<files, request, intact>>

AddRequest(n, c) == [op |-> "add", name |-> n, contents |-> c]
DelRequest(n) == [op |-> "del", name |-> n, contents |-> NoFile]

Init == /\ files = [n \in Names |-> NoFile]
        /\ request = NoRequest
        /\ intact \in BOOLEAN

Ask == /\ intact /\ intact'
       /\ request = NoRequest
       /\ \E n \in Names :
            \/ files[n] = NoFile /\ \E c \in Contents : request' = AddRequest(n, c)
            \/ files[n] # NoFile /\ request' = DelRequest(n)
       /\ UNCHANGED files

\* The contents of a deletion are NoFile: both commands end the same way.
Commit == /\ intact /\ intact'
          /\ request # NoRequest
          /\ files' = [files EXCEPT ![request.name] = request.contents]
          /\ request' = NoRequest

Abandon == /\ intact /\ intact'
           /\ request # NoRequest
           /\ request' = NoRequest
           /\ UNCHANGED files

Damage == intact /\ ~intact'
Anything == ~intact /\ ~intact'

Next == Ask \/ Commit \/ Abandon \/ Damage \/ Anything

Spec == Init /\ [][Next]_vars
=============================================================================
