----------------------------- MODULE PipePromise -----------------------------
(***************************************************************************)
(* What a NodeConnPipe promises the handlers: a message handed to Push is  *)
(* marked done once, and then holds either the reply to the request it     *)
(* carried or an error.  Channels, batches and connections are hidden.     *)
(***************************************************************************)
CONSTANTS Msgs, Reqs, None, Error

VARIABLES
  asked,    \* the messages between Message.Add and Message.Done
  ask,      \* the request it carries
  answer    \* None while it is asked, then the request answered, or Error

vars == <<asked, ask, answer>>

Init ==
  /\ asked = {}
  /\ ask = [m \in Msgs |-> None]
  /\ answer = [m \in Msgs |-> None]

Push(m, r) ==
  /\ m \notin asked
  /\ asked' = asked \cup {m}
  /\ ask' = [ask EXCEPT ![m] = r]
  /\ answer' = [answer EXCEPT ![m] = None]

Done(m) ==
  /\ m \in asked
  /\ asked' = asked \ {m}
  /\ answer' \in {[answer EXCEPT ![m] = a] : a \in {ask[m], Error}}
  /\ UNCHANGED ask

Next == \E m \in Msgs : (\E r \in Reqs : Push(m, r)) \/ Done(m)

Safe == Init /\ [][Next]_vars

\* a pipe that is not closed marks every message done
Spec == Safe /\ \A m \in Msgs : WF_vars(Done(m))

=============================================================================
