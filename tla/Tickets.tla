------------------------------ MODULE Tickets -------------------------------
(***************************************************************************)
(* The arithmetic of a __ticket_t: counters of a fixed width that wrap.    *)
(***************************************************************************)
EXTENDS Integers

CONSTANT TicketMod   \* number of values a ticket takes before it wraps

ASSUME TicketModAssumption == TicketMod \in Nat /\ TicketMod > 1

Tickets == 0 .. TicketMod - 1

\* Fault: the carry runs out of the counter.
IncNoWrap(k) == k + 1

\* Fault: the counter saturates instead of wrapping.
IncSaturating(k) == IF k + 1 < TicketMod THEN k + 1 ELSE k

\* The ticket after k.
Inc(k) == (k + 1) % TicketMod

\* How far ticket k is behind ticket h, around the wrap.
Offset(h, k) == IF k >= h THEN k - h ELSE k - h + TicketMod

\* The ticket n places behind h, for n at most TicketMod.
Behind(h, n) == IF h + n < TicketMod THEN h + n ELSE h + n - TicketMod
=============================================================================
