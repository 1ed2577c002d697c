----------------------------- MODULE PolicyHost -----------------------------
(***************************************************************************)
(* pmon with a Lua restart policy, examples/42-embedded-lua-scripting,     *)
(* cpp/src/main.cpp: "run" loads the policy, decides three exits, waits    *)
(* for SIGHUP, loads the file again and decides two more; "check" loads it *)
(* and decides one.  Meanwhile the file is edited and the signal sent.     *)
(* The interpreter is external: a file is good, does not load ("broken"),  *)
(* defines no on_exit, or raises in it ("evil").                           *)
(***************************************************************************)
EXTENDS Naturals, Sequences

CONSTANTS MaxEdits, Files42   \* edits of a behaviour, kinds of contents

VARIABLES
  cmd42,   \* "run", "check"
  pc42,    \* "mask", "load", "phase", "await", "ok", "failed", "killed"
  phase42, \* 1, 2
  left42,  \* events of the phase not yet decided
  file42,  \* what --policy names now: [ver, kind]
  lua42,   \* what the interpreter runs: <<>> or <<contents>>
  hup42,   \* SIGHUP pending; 0, or the version of the file when it was last sent
  asked42, \* the version the reload was asked for, 0 if none was
  log42    \* the decisions printed: <<phase, version>>
polVars == <<cmd42, pc42, phase42, left42, file42, lua42, hup42, asked42, log42>>

Events42 == <<3, 2>>   \* kPhase1, kPhase2

PolInit ==
  /\ cmd42 \in {"run", "check"} /\ pc42 = (IF cmd42 = "run" THEN "mask" ELSE "load")
  /\ phase42 = 1 /\ left42 = (IF cmd42 = "run" THEN Events42[1] ELSE 1)
  /\ file42 \in [ver : {1}, kind : Files42] /\ lua42 = <<>>
  /\ hup42 = 0 /\ asked42 = 0 /\ log42 = {}

Gone42 == pc42 \in {"ok", "failed", "killed"}

EditPolicy ==
  /\ ~Gone42 /\ file42.ver <= MaxEdits
  /\ file42' \in [ver : {file42.ver + 1}, kind : Files42]
  /\ UNCHANGED <<cmd42, pc42, phase42, left42, lua42, hup42, asked42, log42>>

\* Until SIGHUP is blocked, and in "check" always, its default action ends pmon.
SendHup ==
  /\ ~Gone42
  /\ IF cmd42 = "check" \/ pc42 = "mask"
     THEN pc42' = "killed" /\ UNCHANGED hup42
     ELSE hup42' = file42.ver /\ UNCHANGED pc42
  /\ UNCHANGED <<cmd42, phase42, left42, file42, lua42, asked42, log42>>

MakeSighupFd ==
  /\ pc42 = "mask" /\ pc42' = "load"
  /\ UNCHANGED <<cmd42, phase42, left42, file42, lua42, hup42, asked42, log42>>

\* Faulty variant: an interpreter that has a policy keeps it.
ReloadCached ==
  /\ pc42 = "load"
  /\ IF lua42 = <<>> /\ file42.kind = "broken"
     THEN pc42' = "failed" /\ UNCHANGED lua42
     ELSE pc42' = "phase" /\ lua42' = IF lua42 = <<>> THEN <<file42>> ELSE lua42
  /\ UNCHANGED <<cmd42, phase42, left42, file42, hup42, asked42, log42>>

\* A fresh sandbox, the file, and on_load.
Reload ==
  /\ pc42 = "load"
  /\ IF file42.kind = "broken" THEN pc42' = "failed" /\ UNCHANGED lua42
     ELSE pc42' = "phase" /\ lua42' = <<file42>>
  /\ UNCHANGED <<cmd42, phase42, left42, file42, hup42, asked42, log42>>

\* run_phase: a protected call per event; the first that fails ends the run.
Decide ==
  /\ pc42 = "phase" /\ left42 > 0
  /\ IF lua42[1].kind = "good"
     THEN /\ left42' = left42 - 1 /\ log42' = log42 \cup {<<phase42, lua42[1].ver>>}
          /\ UNCHANGED pc42
     ELSE pc42' = "failed" /\ UNCHANGED <<left42, log42>>
  /\ UNCHANGED <<cmd42, phase42, file42, lua42, hup42, asked42>>

PhaseEnds ==
  /\ pc42 = "phase" /\ left42 = 0
  /\ pc42' = IF cmd42 = "run" /\ phase42 = 1 THEN "await" ELSE "ok"
  /\ UNCHANGED <<cmd42, phase42, left42, file42, lua42, hup42, asked42, log42>>

\* Faulty variant: the record that is read is not taken for a SIGHUP.
WaitForSighupDrained ==
  /\ pc42 = "await" /\ hup42 # 0 /\ hup42' = 0
  /\ UNCHANGED <<cmd42, pc42, phase42, left42, file42, lua42, asked42, log42>>

\* The signalfd gives one SIGHUP however often it was sent, also one that came
\* before the wait; then it is closed.
WaitForSighup ==
  /\ pc42 = "await" /\ hup42 # 0
  /\ pc42' = "load" /\ phase42' = 2 /\ left42' = Events42[2]
  /\ asked42' = hup42 /\ hup42' = 0
  /\ UNCHANGED <<cmd42, file42, lua42, log42>>

PolProgress == MakeSighupFd \/ Reload \/ Decide \/ PhaseEnds \/ WaitForSighup
PolNext == PolProgress \/ EditPolicy \/ SendHup
PolSpec == PolInit /\ [][PolNext]_polVars

\* A decision of the second phase is made by the policy that was in the file when
\* the reload was last asked for, or by a later one, however edits, signals and
\* the first phase interleave.
NoStaleDecision == \A d \in log42 : d[1] = 2 => asked42 # 0 /\ d[2] >= asked42

\* A SIGHUP sent after it was blocked, perhaps before pmon waits for it.
HupAsked == cmd42 = "run" /\ hup42 # 0

\* "the running supervisor would keep its previous good policy"
\* (policy-broken.lua): a bad edit does not end a pmon that runs a good policy.
KeepsGoodPolicy == phase42 = 2 /\ log42 # {} => pc42 # "failed"
=============================================================================
