---------------------------- MODULE LevelTriggered ----------------------------
(***************************************************************************)
(* What an operator promises to the user of one resource, whatever objects *)
(* it manages and in whatever order it works.  A request may change at any *)
(* time.  The operator works on the objects in steps of its own, through   *)
(* states that satisfy no request, and it rests only on objects that       *)
(* satisfy the current one.  While it rests it touches nothing.            *)
(***************************************************************************)
CONSTANT Request     \* what a user may ask for

VARIABLES
  desired,    \* the current request, {} once withdrawn
  satisfied,  \* the requests that the objects, as they are, satisfy
  resting     \* has the operator come to rest

vars == <<desired, satisfied, resting>>

Requests == {{}} \cup {{r} : r \in Request}

Init == /\ desired \in Requests \ {{}}
        /\ satisfied \in SUBSET Request
        /\ resting = FALSE

\* The user asks for something else.  An operator that has not yet noticed a request
\* that is taken back again may go on resting.
Ask == /\ desired # {} /\ desired' \in Requests
       /\ resting' \in BOOLEAN /\ (resting' => desired' \subseteq satisfied)
       /\ UNCHANGED satisfied

\* Objects change only while the operator is at work, or when nothing is asked for.
Work == /\ resting => desired = {}
        /\ satisfied' \in SUBSET Request
        /\ UNCHANGED <<desired, resting>>

Rest == /\ ~resting /\ desired \subseteq satisfied
        /\ resting' = TRUE
        /\ UNCHANGED <<desired, satisfied>>

\* A resync or a crash.
Wake == /\ resting
        /\ resting' = FALSE
        /\ UNCHANGED <<desired, satisfied>>

Next == Ask \/ Work \/ Rest \/ Wake

Spec == Init /\ [][Next]_vars
=============================================================================
