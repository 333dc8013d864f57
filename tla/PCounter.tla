------------------------------ MODULE PCounter ------------------------------
(***************************************************************************)
(* The performance counters of a NumaChip (lib/pcounter.c) and the         *)
(* functions around them (lib/pcounter_test.c).  A counter has a select    *)
(* field that names a unit of the chip, a mask that picks one of the       *)
(* unit's eight events, and a value of 40 bits in two registers.  The      *)
(* counter runs as soon as its mask is set.                                *)
(*                                                                         *)
(* The registers of one chip are a record; a call takes it and returns it. *)
(* A select field is the set of its bits, because the code combines fields *)
(* with bitwise operators.                                                 *)
(***************************************************************************)
EXTENDS Integers

CONSTANTS Counters,     \* the counters in use, of 0 .. 7
          LowMod,       \* values of the lower register, 2^32
          HighMod       \* values of the upper register, 2^8

ASSUME CounterAssumption ==
    /\ Counters \subseteq 0 .. 7
    /\ LowMod \in Nat \ {0} /\ HighMod \in Nat \ {0}

Unit == SUBSET (0 .. 2)
Events == 0 .. 7

Registers ==
    [select : [Counters -> Unit], mask : [Counters -> SUBSET Events],
     hi : [Counters -> 0 .. HighMod - 1], lo : [Counters -> 0 .. LowMod - 1]]

Value(r, c) == r.hi[c] * LowMod + r.lo[c]
-----------------------------------------------------------------------------
\* numachip_clear_pcounter.  With the mask gone nothing counts, so the two
\* writes of the value are one.
Clear(r, c) ==
    [r EXCEPT !.select[c] = {}, !.mask[c] = {}, !.hi[c] = 0, !.lo[c] = 0]

\* numachip_select_pcounter: a field that shares no bit is added to, not
\* replaced.
SelectBusy(r, c, unit) == r.select[c] \cap unit # {}
Select(r, c, unit) ==
    IF SelectBusy(r, c, unit) THEN r ELSE [r EXCEPT !.select[c] = @ \cup unit]

\* numachip_mask_pcounter: compare and mask are set to the same single bit.
MaskBusy(r, c, e) == e \in r.mask[c]
Mask(r, c, e) == IF MaskBusy(r, c, e) THEN r ELSE [r EXCEPT !.mask[c] = {e}]

\* Fault: numachip_stop_pcounter with the other fields written as zero.
StopAll(r, c) == [r EXCEPT !.select = [d \in Counters |-> {}], !.mask[c] = {}]

\* numachip_stop_pcounter: the select register is written as a whole, with
\* all the bits of all the other fields set.
Stop(r, c) ==
    [r EXCEPT !.select = [d \in Counters |-> IF d = c THEN {} ELSE 0 .. 2],
              !.mask[c] = {}]

\* numachip_restart_pcounter on a counter that runs: two writes.
RestartUpper(r, c) == [r EXCEPT !.hi[c] = 0]
RestartLower(r, c) == [r EXCEPT !.lo[c] = 0]

\* Fault: numachip_fullstart_pcounter without its first call.
FullStartDirty(r, c, unit, e) ==
    IF SelectBusy(r, c, unit) THEN r ELSE Mask(Select(r, c, unit), c, e)

\* numachip_fullstart_pcounter: clear, select, mask; the first error ends it.
FullStart(r, c, unit, e) ==
    LET cleared == Clear(r, c) IN
    IF SelectBusy(cleared, c, unit) THEN cleared ELSE Mask(Select(cleared, c, unit), c, e)

\* The chip: event e of a unit happens; the lower register carries over.
Tick(r, unit, e) ==
    LET hit == {c \in Counters : r.select[c] = unit /\ e \in r.mask[c]} IN
    [r EXCEPT
        !.lo = [c \in Counters |-> IF c \in hit THEN (r.lo[c] + 1) % LowMod ELSE r.lo[c]],
        !.hi = [c \in Counters |->
                    IF c \in hit /\ r.lo[c] = LowMod - 1
                    THEN (r.hi[c] + 1) % HighMod ELSE r.hi[c]]]
=============================================================================
