------------------------------- MODULE KvStore -------------------------------
(***************************************************************************)
(* shmkv v0, examples/16-mmap-and-shared-mappings, cpp/src/main.cpp: one   *)
(* process per command, all of them on one file that each maps shared.     *)
(* A set clears its slot, writes the key, then the value, and may be       *)
(* killed in between; create truncates the file under whoever maps it.     *)
(* Nothing locks the table: TakeTurns says whether those who run the       *)
(* commands start a writer only when no other one is at work.              *)
(***************************************************************************)
EXTENDS Naturals, FiniteSets

CONSTANTS
  Procs16, Keys16, Values16,
  SlotCount16,  \* --slots
  MaxCmds,      \* commands that are started
  TakeTurns

Nul16 == ""  \* a field that begins with a NUL

\* parse_slots refuses 0, cmd_set an empty key.
ASSUME Kv0Assumption == SlotCount16 \in Nat \ {0} /\ Nul16 \notin Keys16

VARIABLES
  size16,   \* "none", "zero" (truncated), "full"
  header16, \* magic and slot count are written
  slots16,  \* slot -> [key, val]; Nul16 is a blank field
  proc16,   \* process -> its command: op, key, val; at; slot; empty (first_empty);
            \* answer; want: what a get has to print
  cmds16,   \* commands started so far
  last16    \* key -> what the last set that was reported wrote, "missing", or
            \* "any" once a set of the key has begun
kv0Vars == <<size16, header16, slots16, proc16, cmds16, last16>>

Slots16 == 0..(SlotCount16 - 1)
Blank16 == [key |-> Nul16, val |-> Nul16]
Idle16 == [op |-> "none", key |-> Nul16, val |-> Nul16, at |-> "idle", slot |-> 0,
           empty |-> SlotCount16, answer |-> Nul16, want |-> "any"]

Kv0Init ==
  /\ size16 = "none" /\ header16 = FALSE /\ slots16 = [i \in Slots16 |-> Blank16]
  /\ proc16 = [p \in Procs16 |-> Idle16] /\ cmds16 = 0
  /\ last16 = [k \in Keys16 |-> "missing"]

At(p, op, at) == proc16[p].op = op /\ proc16[p].at = at
To(p, at) == proc16' = [proc16 EXCEPT ![p].at = at]
Writing == {p \in Procs16 : proc16[p].op \in {"set", "create"} /\ proc16[p].at # "idle"}

\* A command line: one of the four, with its key and value.
Command16(p) ==
  /\ proc16[p].at = "idle" /\ cmds16 < MaxCmds /\ cmds16' = cmds16 + 1
  /\ \E op \in {"create", "set", "get", "dump"}, k \in Keys16, v \in Values16 :
       /\ op \in {"create", "set"} /\ TakeTurns => Writing = {}
       /\ op # "set" => v = CHOOSE w \in Values16 : TRUE
       /\ op \in {"create", "dump"} => k = CHOOSE j \in Keys16 : TRUE
       /\ proc16' = [proc16 EXCEPT ![p] =
            [Idle16 EXCEPT !.op = op, !.at = "open", !.key = k, !.val = v,
                           !.want = last16[k]]]
  /\ UNCHANGED <<size16, header16, slots16, last16>>

End16(p) == proc16' = [proc16 EXCEPT ![p] = Idle16]

(* -------------------------------- create --------------------------------- *)

\* O_TRUNC: every key is gone, for those who have the file mapped too.
Truncate(p) ==
  /\ At(p, "create", "open") /\ size16' = "zero" /\ header16' = FALSE
  /\ slots16' = [i \in Slots16 |-> Blank16] /\ last16' = [k \in Keys16 |-> "missing"]
  /\ proc16' = [q \in Procs16 |->
       IF q = p THEN [proc16[q] EXCEPT !.at = "extend"] ELSE [proc16[q] EXCEPT !.want = "any"]]
  /\ UNCHANGED cmds16

Extend(p) ==
  /\ At(p, "create", "extend") /\ size16' = "full" /\ To(p, "header")
  /\ UNCHANGED <<header16, slots16, cmds16, last16>>

WriteHeader(p) ==
  /\ At(p, "create", "header") /\ header16' = TRUE /\ End16(p)
  /\ UNCHANGED <<size16, slots16, cmds16, last16>>

(* ------------------------------ open, probe ------------------------------ *)

\* Store::open: a file that is missing, short or without its header is refused.
Open16(p) ==
  /\ proc16[p].op \in {"set", "get", "dump"} /\ proc16[p].at = "open"
  /\ IF size16 = "full" /\ header16 THEN To(p, "probe") ELSE End16(p)
  /\ UNCHANGED <<size16, header16, slots16, cmds16, last16>>

\* A mapped page behind the end of the file.
BusError(p) ==
  /\ proc16[p].at \in {"probe", "read", "clear", "key", "value"} /\ size16 = "zero" /\ End16(p)
  /\ UNCHANGED <<size16, header16, slots16, cmds16, last16>>

\* Faulty variant: the search for the key ends at the first empty slot.
ProbeNextToHole(p, i) ==
  LET w == proc16[p]
  IN proc16' = [proc16 EXCEPT ![p] =
       IF i = SlotCount16 THEN [w EXCEPT !.at = "found"]
       ELSE IF slots16[i].key \in {Nul16, w.key} THEN [w EXCEPT !.at = "found"]
       ELSE [w EXCEPT !.slot = i + 1]]

\* Slot after slot, to the key or to the end; the first empty slot is noted.
ProbeNext(p, i) ==
  LET w == proc16[p]
  IN proc16' = [proc16 EXCEPT ![p] =
       IF i = SlotCount16 THEN [w EXCEPT !.at = "found", !.slot = w.empty]
       ELSE IF slots16[i].key = w.key THEN [w EXCEPT !.at = "found"]
       ELSE IF slots16[i].key = Nul16 /\ w.empty = SlotCount16
            THEN [w EXCEPT !.slot = i + 1, !.empty = i]
       ELSE [w EXCEPT !.slot = i + 1]]

ProbeSet(p) ==
  /\ At(p, "set", "probe") /\ size16 = "full" /\ ProbeNext(p, proc16[p].slot)
  /\ UNCHANGED <<size16, header16, slots16, cmds16, last16>>

(* ---------------------------------- set ---------------------------------- *)

\* The store is full: exit 5, nothing is changed.
StoreFull(p) ==
  /\ At(p, "set", "found") /\ proc16[p].slot = SlotCount16 /\ End16(p)
  /\ UNCHANGED <<size16, header16, slots16, cmds16, last16>>

\* memset of the whole slot.
ClearSlot16(p) ==
  /\ At(p, "set", "found") /\ proc16[p].slot # SlotCount16 /\ size16 = "full"
  /\ slots16' = [slots16 EXCEPT ![proc16[p].slot] = Blank16]
  /\ last16' = [last16 EXCEPT ![proc16[p].key] = "any"]
  /\ proc16' = [q \in Procs16 |->
       IF q = p THEN [proc16[q] EXCEPT !.at = "key"]
       ELSE IF proc16[q].key = proc16[p].key THEN [proc16[q] EXCEPT !.want = "any"]
       ELSE proc16[q]]
  /\ UNCHANGED <<size16, header16, cmds16>>

WriteKey16(p) ==
  /\ At(p, "set", "key") /\ size16 = "full" /\ To(p, "value")
  /\ slots16' = [slots16 EXCEPT ![proc16[p].slot].key = proc16[p].key]
  /\ UNCHANGED <<size16, header16, cmds16, last16>>

\* The value, msync, and "set KEY": from now on a get must find it.
WriteValue16(p) ==
  /\ At(p, "set", "value") /\ size16 = "full" /\ End16(p)
  /\ slots16' = [slots16 EXCEPT ![proc16[p].slot].val = proc16[p].val]
  /\ last16' = [last16 EXCEPT ![proc16[p].key] = proc16[p].val]
  /\ UNCHANGED <<size16, header16, cmds16>>

\* A setter is killed: with its slot cleared, or with the key and no value.
SetterDies(p) ==
  /\ proc16[p].op = "set" /\ proc16[p].at \in {"key", "value"} /\ End16(p)
  /\ UNCHANGED <<size16, header16, slots16, cmds16, last16>>

(* ------------------------------ get and dump ----------------------------- *)

Answer(p, a) == proc16' = [proc16 EXCEPT ![p] = [@ EXCEPT !.at = "told", !.answer = a]]

ProbeGet(p) ==
  /\ At(p, "get", "probe") /\ size16 = "full"
  /\ LET i == proc16[p].slot
     IN \/ i = SlotCount16 /\ Answer(p, "missing")
        \/ i \in Slots16 /\ slots16[i].key = proc16[p].key /\ To(p, "read")
        \/ /\ i \in Slots16 /\ slots16[i].key # proc16[p].key
           /\ proc16' = [proc16 EXCEPT ![p].slot = i + 1]
  /\ UNCHANGED <<size16, header16, slots16, cmds16, last16>>

\* The value is read after the key was.
ReadValue(p) ==
  /\ At(p, "get", "read") /\ size16 = "full" /\ Answer(p, slots16[proc16[p].slot].val)
  /\ UNCHANGED <<size16, header16, slots16, cmds16, last16>>

Told16(p) ==
  /\ At(p, "get", "told") /\ End16(p)
  /\ UNCHANGED <<size16, header16, slots16, cmds16, last16>>

\* Every slot is read in turn; the pairs are printed in the order of their keys.
DumpNext(p) ==
  /\ At(p, "dump", "probe") /\ size16 = "full"
  /\ IF proc16[p].slot = SlotCount16 THEN End16(p)
     ELSE proc16' = [proc16 EXCEPT ![p].slot = @ + 1]
  /\ UNCHANGED <<size16, header16, slots16, cmds16, last16>>

Kv0Step(p) ==
  \/ Truncate(p) \/ Extend(p) \/ WriteHeader(p) \/ Open16(p) \/ BusError(p) \/ ProbeSet(p)
  \/ StoreFull(p) \/ ClearSlot16(p) \/ WriteKey16(p) \/ WriteValue16(p) \/ ProbeGet(p)
  \/ ReadValue(p) \/ Told16(p) \/ DumpNext(p)
Kv0Next == \E p \in Procs16 : Command16(p) \/ SetterDies(p) \/ Kv0Step(p)
Kv0Spec == Kv0Init /\ [][Kv0Next]_kv0Vars

Places(k) == {i \in Slots16 : slots16[i].key = k}

\* A key has one place, also after a setter died and left a hole before it; and
\* what a get prints is what the last completed set of the key wrote, unless a set
\* of that key, or a create, was at work meanwhile or was cut short.
GetsWhatWasSet ==
  /\ \A k \in Keys16 : Cardinality(Places(k)) <= 1
  /\ \A p \in Procs16 : At(p, "get", "told") => proc16[p].want \in {"any", proc16[p].answer}
=============================================================================
