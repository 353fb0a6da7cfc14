----------------------------- MODULE OfferAward -----------------------------
(***************************************************************************)
(* What dispatch promises, with no offers, tasks, locks or sessions in it: *)
(* a job is posted, at most one provider is ever awarded it, out of those  *)
(* of the type the customer asked for and not before the slot it was       *)
(* booked for, and a withdrawn job is never awarded.                       *)
(***************************************************************************)
EXTENDS JobRows

CONSTANT Slots

VARIABLES
  now,      \* the clock
  booking,  \* request type and slot of each job, as the customer booked it
  phase,    \* "unposted", "open", "awarded" or "withdrawn"
  winner    \* the provider the job was awarded to, if any

vars == <<now, booking, phase, winner>>

Init ==
  /\ now = 0
  /\ booking \in [Jobs -> [type : RequestTypes, at : Slots]]
  /\ phase = [j \in Jobs |-> "unposted"]
  /\ winner = [j \in Jobs |-> None]

Post(j) ==
  /\ phase[j] = "unposted"
  /\ phase' = [phase EXCEPT ![j] = "open"]
  /\ UNCHANGED <<now, booking, winner>>

Award(j, p) ==
  /\ phase[j] = "open"
  /\ booking[j].type \in {ProviderType(p), "auto"}
  /\ booking[j].at <= now
  /\ phase' = [phase EXCEPT ![j] = "awarded"]
  /\ winner' = [winner EXCEPT ![j] = p]
  /\ UNCHANGED <<now, booking>>

Withdraw(j) ==
  /\ phase[j] \in {"open", "awarded"}
  /\ phase' = [phase EXCEPT ![j] = "withdrawn"]
  /\ UNCHANGED <<now, booking, winner>>

Advance ==
  /\ now' = now + 1
  /\ UNCHANGED <<booking, phase, winner>>

Next ==
  \/ \E j \in Jobs :
       \/ Post(j)
       \/ \E p \in Providers : Award(j, p)
       \/ Withdraw(j)
  \/ Advance

Spec == Init /\ [][Next]_vars

=============================================================================
