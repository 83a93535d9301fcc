------------------------------ MODULE Exchange ------------------------------
(***************************************************************************)
(* What a call of the unreliable protocol promises, with no frame and no   *)
(* timer: the client asks once, every memory of a server takes the call at *)
(* most once, a taken call gets one verdict, and what the client reports   *)
(* is the verdict of a server that has it, or an end of its own.           *)
(***************************************************************************)
CONSTANTS
  Call,     \* calls, one of each client incarnation
  Server,   \* servers, each for as long as it remembers its calls
  Local     \* the ends a client decides by itself

VARIABLES
  asked,    \* the calls made
  fate,     \* what became of a call at a server
  outcome   \* what the client reports of a call

exchange == <<asked, fate, outcome>>

Verdict == {"ok", "error", "rejected"}

Init ==
  /\ asked = {}
  /\ fate = [s \in Server |-> [c \in Call |-> "none"]]
  /\ outcome = [c \in Call |-> "none"]

Ask(c) ==
  /\ asked' = asked \cup {c}
  /\ UNCHANGED <<fate, outcome>>

\* The server takes the call, or refuses it with a verdict of its own.
Take(s, c) ==
  /\ c \in asked /\ fate[s][c] = "none"
  /\ \E v \in {"running", "rejected"} : fate' = [fate EXCEPT ![s][c] = v]
  /\ UNCHANGED <<asked, outcome>>

\* The handler returns; its verdict may be for nobody any more.
Decide(s, c) ==
  /\ fate[s][c] = "running"
  /\ \E v \in {"ok", "error", "dropped"} : fate' = [fate EXCEPT ![s][c] = v]
  /\ UNCHANGED <<asked, outcome>>

Report(c) ==
  /\ outcome[c] = "none"
  /\ \/ \E s \in Server : /\ fate[s][c] \in Verdict
                          /\ outcome' = [outcome EXCEPT ![c] = fate[s][c]]
     \/ \E o \in Local : outcome' = [outcome EXCEPT ![c] = o]
  /\ UNCHANGED <<asked, fate>>

Next == \E c \in Call : \/ Ask(c) \/ Report(c)
                        \/ \E s \in Server : Take(s, c) \/ Decide(s, c)

Spec == Init /\ [][Next]_exchange
=============================================================================
