---- MODULE PaidOperation ----
(***************************************************************************)
(* What the application promises about an operation a provider charges     *)
(* for: the intent to submit is durable before the provider is called, the *)
(* provider is called at most once, the outcome is uncertain from the      *)
(* intent until an authoritative answer, and an answer is final.           *)
(***************************************************************************)
EXTENDS Naturals

CONSTANT Ops

VARIABLES phase,   \* how much is known of each operation
          calls    \* submit calls made for each operation

TypeOK ==
    /\ phase \in [Ops -> {"unsubmitted", "uncertain", "settled"}]
    /\ calls \in [Ops -> {0, 1}]

Init ==
    /\ phase = [o \in Ops |-> "unsubmitted"]
    /\ calls = [o \in Ops |-> 0]

Intend(o) ==
    /\ phase[o] = "unsubmitted"
    /\ phase' = [phase EXCEPT ![o] = "uncertain"]
    /\ UNCHANGED calls

Call(o) ==
    /\ phase[o] = "uncertain"
    /\ calls[o] = 0
    /\ calls' = [calls EXCEPT ![o] = 1]
    /\ UNCHANGED phase

Settle(o) ==
    /\ phase[o] = "uncertain"
    /\ calls[o] = 1
    /\ phase' = [phase EXCEPT ![o] = "settled"]
    /\ UNCHANGED calls

Next == \E o \in Ops : Intend(o) \/ Call(o) \/ Settle(o)

Spec == Init /\ [][Next]_<<phase, calls>>
====
