------------------------ MODULE ExecuteServiceProofs ------------------------
(***************************************************************************)
(* Proofs about ExecuteService, for every set of threads, calls and        *)
(* bundles, and every limit.                                               *)
(*                                                                         *)
(* ExecuteInv has a part about each thread alone (how far its call has     *)
(* come, what it left on disk, which script it chose), which steps of      *)
(* other threads do not touch, and the two properties that relate threads  *)
(* to the registry they share.                                             *)
(***************************************************************************)
EXTENDS ExecuteService, FiniteSetTheorems, TLAPS

\* The kinds of calls at each label, and what ran, ok and seen are before, while and
\* after the process runs.
ThreadOf(w) ==
    /\ IF pc[w] = "idle" THEN call[w] = NoCall ELSE call[w] \in Calls
    /\ pc[w] = "start" => call[w].kind \in {"script", "bundle"}
    /\ pc[w] \in {"write", "cleanup"} => call[w].kind = "script"
    /\ pc[w] = "remove" => call[w].kind # "script"
    /\ pc[w] \in {"idle", "prepare", "start", "write", "spawn"} => ~ loc[w].ran
    /\ pc[w] \in {"running", "collect", "blocked"} => loc[w].ran
    /\ ~ loc[w].ran => ~ loc[w].ok /\ loc[w].seen = Absent
    /\ call[w].kind # "bundle" => loc[w].seen = Absent

\* What is on disk when it matters: nothing before the first write, and nothing
\* after the last removal unless that failed.
TempOf(w) ==
    /\ pc[w] \in {"idle", "prepare"} => loc[w].temp = "none"
    /\ pc[w] \in {"start", "write"} /\ call[w].kind = "script" => loc[w].temp = "none"
    /\ pc[w] = "cleanup" => loc[w].temp = "none" \/ loc[w].mishap
    /\ pc[w] = "done" /\ loc[w].temp # "none"
         => loc[w].mishap /\ (call[w].kind # "script" => ~ loc[w].ok)

\* From its choice on, a bundle's script is one that execute_bundle may run.
ChosenOf(w) ==
    pc[w] \in {"start", "spawn", "running"} /\ call[w].kind = "bundle" =>
        /\ loc[w].target \in Runnable(call[w])
        /\ loc[w].source = Text(Tree(call[w]), loc[w].target)

AloneOf(w) == ThreadOf(w) /\ TempOf(w) /\ ChosenOf(w)

ExecuteInv ==
    /\ \A w \in Workers : AloneOf(w)
    /\ OnlyEndedBundlesRemain
    /\ StatusHonest

-----------------------------------------------------------------------------
(* Calls, bundles and the search for the script.                           *)

\* What the fields of a call are.
LEMMA CallTypes ==
    ASSUME NEW c \in Calls
    PROVE  /\ c.kind \in Kinds
           /\ c.sid \in Sessions
           /\ c # NoCall
           /\ c.kind # "bundle" => c.source \in Bodies
           /\ c.kind = "bundle" => /\ c.csv \in Datasets \cup {EmptyBytes, Absent}
                                   /\ c.path \in Names \cup DOMAIN Outside \cup {Absent}
                                   /\ IsFiniteSet(c.bundle.entries)
  BY ExecuteAssumption DEF Kinds, NoCall

\* The smallest index of a set of indices of Preferred.
LEMMA MinIndex ==
    ASSUME NEW S \in SUBSET (1 .. 3), S # {}
    PROVE  Min(S) \in S /\ \A y \in S : Min(S) <= y
<1>1. \E x \in S : \A y \in S : x <= y
  <2>1. CASE 1 \in S
    BY <2>1
  <2>2. CASE 1 \notin S /\ 2 \in S
    BY <2>2
  <2>3. CASE 1 \notin S /\ 2 \notin S
    <3>1. \A y \in S : y = 3
      BY <2>3
    <3>2. 3 \in S
      BY <3>1
    <3> QED
      BY <3>1, <3>2
  <2> QED
    BY <2>1, <2>2, <2>3
<1> QED
  BY <1>1 DEF Min

\* With a path, _find_script returns that path, if it exists.  Without one it returns
\* a script of the directory, the first of the preferred names that is there, or
\* another one when none of them is.
LEMMA FindScriptFinds ==
    ASSUME NEW tree, NEW path \in Names \cup DOMAIN Outside \cup {Absent},
           NEW n \in FindScript(tree, path)
    PROVE  /\ path # Absent => n = path /\ n \in DOMAIN tree \cup DOMAIN Outside
           /\ path = Absent =>
                /\ n \in ScriptNames /\ n \in DOMAIN tree
                /\ n # "main.py" => "main.py" \notin DOMAIN tree
                /\ n \notin {"main.py", "script.py"} => "script.py" \notin DOMAIN tree
                /\ n \in OtherScripts => "run.py" \notin DOMAIN tree
<1>1. CASE path # Absent
  BY <1>1 DEF FindScript
<1>2. CASE path = Absent
  <2> DEFINE present == {i \in DOMAIN Preferred : Preferred[i] \in DOMAIN tree}
  <2>1. /\ DOMAIN Preferred = 1 .. 3 /\ Preferred[1] = "main.py"
        /\ Preferred[2] = "script.py" /\ Preferred[3] = "run.py"
    BY DEF Preferred
  <2>2. present \in SUBSET (1 .. 3)
    BY <2>1
  <2>3. CASE present # {}
    <3>1. n = Preferred[Min(present)]
      BY <1>2, <2>3 DEF FindScript
    <3>2. Min(present) \in present /\ \A y \in present : Min(present) <= y
      BY <2>2, <2>3, MinIndex
    <3>3. n \in DOMAIN tree /\ n \in {"main.py", "script.py", "run.py"}
      BY <2>1, <3>1, <3>2
    <3>4. n # "main.py" => "main.py" \notin DOMAIN tree
      <4>1. "main.py" \in DOMAIN tree => 1 \in present
        BY <2>1
      <4>2. 1 \in present => Min(present) = 1
        BY <2>1, <3>2
      <4> QED
        BY <2>1, <3>1, <4>1, <4>2
    <3>5. n \notin {"main.py", "script.py"} => "script.py" \notin DOMAIN tree
      <4>1. "script.py" \in DOMAIN tree => 2 \in present
        BY <2>1
      <4>2. 2 \in present => Min(present) \in {1, 2}
        BY <2>1, <3>2
      <4> QED
        BY <2>1, <3>1, <4>1, <4>2
    <3> QED
      BY <1>2, <3>3, <3>4, <3>5 DEF ScriptNames, OtherScripts
  <2>4. CASE present = {}
    <3>1. n \in OtherScripts \cap DOMAIN tree
      BY <1>2, <2>4 DEF FindScript
    <3>2. DOMAIN tree \cap {"main.py", "script.py", "run.py"} = {}
      BY <2>1, <2>4
    <3> QED
      BY <1>2, <3>1, <3>2 DEF ScriptNames
  <2> QED
    BY <2>3, <2>4
<1> QED
  BY <1>1, <1>2

\* The dataset takes the place of generated/data.csv, and nothing else's.
LEMMA TreeFiles ==
    ASSUME NEW c
    PROVE  /\ Truthy(c.csv) => Tree(c)["generated/data.csv"] = c.csv
           /\ \A n : ~ Truthy(c.csv) \/ n # "generated/data.csv" =>
                /\ n \in DOMAIN Tree(c) <=> n \in DOMAIN Extracted(c.bundle)
                /\ n \in DOMAIN Tree(c) => Tree(c)[n] = Extracted(c.bundle)[n]
  BY DEF Tree, WithFile

\* What execute_bundle may run.
LEMMA RunnableScripts ==
    ASSUME NEW c \in Calls, c.kind = "bundle", NEW n \in Runnable(c)
    PROVE  /\ ValidateScript(Text(Tree(c), n))
           /\ n \in FindScript(Tree(c), c.path)
           /\ n \in Names \cup DOMAIN Outside
           /\ ~ (Cardinality(c.bundle.entries) > MAX_ZIP_ENTRIES)
           /\ ~ (TotalSize(c.bundle) > MAX_ZIP_TOTAL_SIZE)
<1>1. /\ ~ ExtractionError(c.bundle)
      /\ n \in FindScript(Tree(c), c.path) /\ ValidateScript(Text(Tree(c), n))
  BY DEF Runnable
<1>2. n \in ScriptNames \/ (n = c.path /\ c.path # Absent)
  BY <1>1, CallTypes, FindScriptFinds
<1>3. n \in Names \cup DOMAIN Outside
  BY <1>2, CallTypes DEF Names
<1> QED
  BY <1>1, <1>3 DEF ExtractionError

-----------------------------------------------------------------------------
(* What a step changes.                                                    *)

\* A thread that does not take the step may only be disturbed by it.
Bystander(v) ==
    /\ pc'[v] = pc[v]
    /\ call'[v] = call[v]
    /\ loc'[v] = loc[v] \/ loc'[v] = [loc[v] EXCEPT !.disturbed = TRUE]

\* Thread w takes a step.
Moves(w) == Step(w) \/ \E c \in Calls : Begin(w, c)

\* The run of thread w ends, or the collection after it does, or waits.
Ends(w) == RunEnds(w) \/ Collect(w) \/ Released(w)

\* All these steps do is to move on and to set ok.
LEMMA EndsStep ==
    ASSUME TypeOK, NEW w \in Workers, Ends(w)
    PROVE  /\ pc[w] \in {"running", "collect", "blocked"}
           /\ pc'[w] \in {"collect", "blocked", "stop"}
           /\ \E label : Goto(w, label)
           /\ \E success \in BOOLEAN : loc' = [loc EXCEPT ![w].ok = success]
           /\ UNCHANGED <<clock, active, begun, call>>
<1>1. /\ pc[w] \in {"running", "collect", "blocked"}
      /\ \E label \in {"collect", "blocked", "stop"} : Goto(w, label)
      /\ UNCHANGED <<clock, active, begun, call>>
  BY DEF Ends, RunEnds, ExitsWell, Collect, Released
<1>2. pc'[w] \in {"collect", "blocked", "stop"}
  BY <1>1 DEF Goto, TypeOK
<1>3. loc = [loc EXCEPT ![w].ok = loc[w].ok] /\ loc[w].ok \in BOOLEAN
  BY DEF TypeOK, Locals
<1>4. loc' = loc \/ \E success \in BOOLEAN : loc' = [loc EXCEPT ![w].ok = success]
  BY DEF Ends, RunEnds, ExitsWell, Collect, Released
<1>5. \E success \in BOOLEAN : loc' = [loc EXCEPT ![w].ok = success]
  BY <1>3, <1>4
<1> QED
  BY <1>1, <1>2, <1>5

\* Nobody else's variables change in a step of w.
LEMMA OthersStandBy ==
    ASSUME TypeOK, NEW w \in Workers, ThreadOf(w), Moves(w), NEW v \in Workers, v # w
    PROVE  Bystander(v)
<1>1. ASSUME NEW r, NEW W, Become(w, r, W)
      PROVE  loc'[v] = loc[v] \/ loc'[v] = [loc[v] EXCEPT !.disturbed = TRUE]
  BY <1>1 DEF Become
<1>2. CASE \E c \in Calls : Begin(w, c)
  BY <1>2 DEF Begin, Goto, Bystander, TypeOK
<1>3. CASE PrepareScript(w) \/ PrepareData(w)
  BY <1>3 DEF PrepareScript, PrepareData, Goto, Bystander, TypeOK
<1>4. CASE PrepareBundle(w)
  BY <1>4 DEF PrepareBundle, Goto, Bystander, TypeOK
<1>5. CASE StartMonitoring(w) \/ WriteScript(w) \/ Spawn(w)
  BY <1>5 DEF StartMonitoring, WriteScript, Spawn, Goto, Bystander, TypeOK
<1>9. CASE Ends(w)
  BY <1>9, EndsStep DEF Goto, Bystander, TypeOK
<1>6. CASE StopMonitoring(w)
  <2>1. pc[w] = "stop" /\ call[w].kind \in Kinds
    BY <1>6, CallTypes DEF StopMonitoring, ThreadOf
  <2>2. CASE call[w].kind = "script"
    <3>1. /\ \E r \in Unlink(w) : Become(w, r, Others(w, {Id(w)}))
          /\ Goto(w, "cleanup") /\ UNCHANGED call
      BY <1>6, <2>2 DEF StopMonitoring
    <3> QED
      BY <1>1, <3>1 DEF Goto, Bystander, TypeOK
  <2>3. CASE call[w].kind = "bundle"
    <3>1. Become(w, loc[w], Others(w, {Id(w)})) /\ Goto(w, "remove") /\ UNCHANGED call
      BY <1>6, <2>3 DEF StopMonitoring
    <3> QED
      BY <1>1, <3>1 DEF Goto, Bystander, TypeOK
  <2>4. CASE call[w].kind = "data"
    <3>1. Goto(w, "remove") /\ UNCHANGED <<call, loc>>
      BY <1>6, <2>4 DEF StopMonitoring
    <3> QED
      BY <3>1 DEF Goto, Bystander, TypeOK
  <2> QED
    BY <2>1, <2>2, <2>3, <2>4 DEF Kinds
<1>7. CASE Cleanup(w)
  BY <1>1, <1>7 DEF Cleanup, Goto, Bystander, TypeOK
<1>8. CASE RemoveDir(w) \/ Return(w)
  BY <1>8 DEF RemoveDir, Return, Goto, Bystander, TypeOK
<1> QED
  BY <1>2, <1>3, <1>4, <1>5, <1>6, <1>7, <1>8, <1>9 DEF Moves, Step, Ends

\* Being disturbed changes nothing else.
LEMMA BystanderFields ==
    ASSUME TypeOK, NEW v \in Workers, Bystander(v)
    PROVE  /\ pc'[v] = pc[v] /\ call'[v] = call[v]
           /\ loc'[v] \in Locals
           /\ loc'[v].second = loc[v].second
           /\ loc'[v].temp = loc[v].temp
           /\ loc'[v].source = loc[v].source
           /\ loc'[v].target = loc[v].target
           /\ loc'[v].seen = loc[v].seen
           /\ loc'[v].ok = loc[v].ok
           /\ loc'[v].ran = loc[v].ran
           /\ loc'[v].mishap = loc[v].mishap
           /\ loc[v].disturbed => loc'[v].disturbed
<1>1. loc[v] \in Locals
  BY DEF TypeOK
<1> QED
  BY <1>1 DEF Bystander, Locals

\* So it keeps what holds of the thread alone.
LEMMA AloneOfBystander ==
    ASSUME TypeOK, NEW v \in Workers, Bystander(v), AloneOf(v)
    PROVE  AloneOf(v)'
  BY BystanderFields DEF AloneOf, ThreadOf, TempOf, ChosenOf

\* The dataset of a bundle that is injected is a dataset.
LEMMA InjectedDataset ==
    ASSUME NEW c \in Calls, c.kind = "bundle", Truthy(c.csv)
    PROVE  Tree(c)["generated/data.csv"] = c.csv /\ c.csv \in Datasets
<1>1. c.csv \in Datasets \cup {EmptyBytes, Absent}
  BY CallTypes
<1> QED
  BY <1>1, TreeFiles DEF Truthy

\* After its own step, thread w's variables have their types and AloneOf holds.
OwnGoal(w) ==
    /\ pc'[w] \in Labels
    /\ call'[w] \in Calls \cup {NoCall}
    /\ loc'[w] \in Locals
    /\ AloneOf(w)'

\* The call begins.
LEMMA BeginOwn ==
    ASSUME TypeOK, NEW w \in Workers, NEW c \in Calls, Begin(w, c)
    PROVE  OwnGoal(w)
<1>1. /\ pc'[w] = "prepare" /\ call'[w] = c
      /\ loc'[w] = [Fresh EXCEPT !.second = clock]
  BY DEF Begin, Goto, TypeOK
<1>2. loc'[w] \in Locals
  BY <1>1 DEF Fresh, Locals, TypeOK
<1>3. /\ loc'[w].temp = "none" /\ ~ loc'[w].ran /\ ~ loc'[w].ok
      /\ loc'[w].seen = Absent
  BY <1>1 DEF Fresh
<1> QED
  BY <1>1, <1>2, <1>3 DEF OwnGoal, AloneOf, ThreadOf, TempOf, ChosenOf, Labels

\* The preparation of the three kinds of calls.
LEMMA PrepareOwn ==
    ASSUME TypeOK, NEW w \in Workers, AloneOf(w),
           PrepareScript(w) \/ PrepareBundle(w) \/ PrepareData(w)
    PROVE  OwnGoal(w)
<1>1. /\ pc[w] = "prepare" /\ call[w] \in Calls /\ call'[w] = call[w]
      /\ loc[w] \in Locals
      /\ loc[w].temp = "none" /\ ~ loc[w].ran /\ ~ loc[w].ok /\ loc[w].seen = Absent
  BY DEF PrepareScript, PrepareBundle, PrepareData, AloneOf, ThreadOf, TempOf, TypeOK
<1>2. CASE loc' = loc /\ pc'[w] = "done"
  BY <1>1, <1>2 DEF OwnGoal, AloneOf, ThreadOf, TempOf, ChosenOf, Labels
<1>3. CASE call[w].kind # "script" /\ pc'[w] = "remove" /\ loc' = [loc EXCEPT ![w].temp = "dir"]
  <2>1. /\ loc'[w] \in Locals
        /\ ~ loc'[w].ran /\ ~ loc'[w].ok /\ loc'[w].seen = Absent
    BY <1>1, <1>3 DEF TypeOK, Locals
  <2> QED
    BY <1>1, <1>3, <2>1 DEF OwnGoal, AloneOf, ThreadOf, TempOf, ChosenOf, Labels
<1>4. CASE PrepareScript(w)
  <2>1. CASE ValidateScript(call[w].source)
    <3>1. /\ pc'[w] = "start" /\ call[w].kind = "script"
          /\ loc' = [loc EXCEPT ![w].source = call[w].source]
      BY <1>4, <2>1 DEF PrepareScript, Goto, TypeOK
    <3>2. /\ loc'[w] \in Locals /\ loc'[w].temp = "none"
          /\ ~ loc'[w].ran /\ ~ loc'[w].ok /\ loc'[w].seen = Absent
      BY <1>1, <3>1, CallTypes DEF TypeOK, Locals
    <3> QED
      BY <1>1, <3>1, <3>2 DEF OwnGoal, AloneOf, ThreadOf, TempOf, ChosenOf, Labels
  <2>2. CASE ~ ValidateScript(call[w].source)
    <3>1. pc'[w] = "cleanup" /\ call[w].kind = "script" /\ loc' = loc
      BY <1>4, <2>2 DEF PrepareScript, Goto, TypeOK
    <3> QED
      BY <1>1, <3>1 DEF OwnGoal, AloneOf, ThreadOf, TempOf, ChosenOf, Labels
  <2> QED
    BY <2>1, <2>2
<1>5. ASSUME call[w].kind = "bundle", NEW n \in Runnable(call[w]), pc'[w] = "start",
             loc' = [loc EXCEPT ![w] = [loc[w] EXCEPT !.temp = "dir", !.target = n,
                                                      !.source = Text(Tree(call[w]), n)]]
      PROVE  OwnGoal(w)
  <2>1. n \in Names \cup DOMAIN Outside /\ Text(Tree(call[w]), n) \in Bodies \cup Datasets
    BY <1>1, <1>5, RunnableScripts, ExecuteAssumption DEF ValidateScript, Bodies
  <2>2. loc'[w] = [loc[w] EXCEPT !.temp = "dir", !.target = n, !.source = Text(Tree(call[w]), n)]
    BY <1>5 DEF TypeOK
  <2>3. /\ loc'[w] \in Locals
        /\ ~ loc'[w].ran /\ ~ loc'[w].ok /\ loc'[w].seen = Absent
        /\ loc'[w].target = n /\ loc'[w].source = Text(Tree(call[w]), n)
    BY <1>1, <2>1, <2>2 DEF Locals
  <2> QED
    BY <1>1, <1>5, <2>3 DEF OwnGoal, AloneOf, ThreadOf, TempOf, ChosenOf, Labels
<1>6. CASE PrepareBundle(w)
  BY <1>2, <1>3, <1>5, <1>6 DEF PrepareBundle, Goto, TypeOK
<1>7. ASSUME call[w].kind = "data", pc'[w] = "spawn",
             loc' = [loc EXCEPT ![w] = [loc[w] EXCEPT !.temp = "dir",
                                                      !.source = call[w].source]]
      PROVE  OwnGoal(w)
  <2>1. loc'[w] = [loc[w] EXCEPT !.temp = "dir", !.source = call[w].source]
    BY <1>7 DEF TypeOK
  <2>2. /\ loc'[w] \in Locals
        /\ ~ loc'[w].ran /\ ~ loc'[w].ok /\ loc'[w].seen = Absent
    <3>1. call[w].source \in Bodies
      BY <1>1, <1>7, CallTypes
    <3> QED
      BY <1>1, <2>1, <3>1 DEF Locals
  <2> QED
    BY <1>1, <1>7, <2>2 DEF OwnGoal, AloneOf, ThreadOf, TempOf, ChosenOf, Labels
<1>8. CASE PrepareData(w)
  BY <1>2, <1>3, <1>7, <1>8 DEF PrepareData, Goto, TypeOK
<1> QED
  BY <1>4, <1>6, <1>8

\* Registration, the temporary script and the process.
LEMMA RunOwn ==
    ASSUME TypeOK, NEW w \in Workers, AloneOf(w),
           StartMonitoring(w) \/ WriteScript(w) \/ Spawn(w) \/ Ends(w)
    PROVE  OwnGoal(w)
<1>1. /\ call'[w] = call[w]
      /\ call[w] \in Calls /\ call[w].kind \in Kinds
      /\ loc[w] \in Locals
  <2>1. pc[w] # "idle" /\ call' = call
    BY EndsStep DEF StartMonitoring, WriteScript, Spawn
  <2> QED
    BY <2>1, CallTypes DEF AloneOf, ThreadOf, TypeOK
<1>2. CASE StartMonitoring(w)
  <2>1. /\ loc' = loc /\ pc[w] = "start"
        /\ \/ pc'[w] = "write" /\ call[w].kind = "script"
           \/ pc'[w] = "spawn" /\ call[w].kind # "script"
    BY <1>2 DEF StartMonitoring, Goto, TypeOK
  <2> QED
    BY <1>1, <2>1 DEF OwnGoal, AloneOf, ThreadOf, TempOf, ChosenOf, Labels
<1>3. CASE WriteScript(w)
  <2>1. pc[w] = "write" /\ call[w].kind = "script" /\ ~ loc[w].ran
    BY <1>3 DEF WriteScript, AloneOf, ThreadOf
  <2>2. CASE pc'[w] = "spawn" /\ loc' = [loc EXCEPT ![w].temp = "file"]
    <3>1. /\ loc'[w] \in Locals
          /\ loc'[w].ran = loc[w].ran /\ loc'[w].ok = loc[w].ok /\ loc'[w].seen = loc[w].seen
      BY <1>1, <2>2 DEF TypeOK, Locals
    <3> QED
      BY <1>1, <2>1, <2>2, <3>1 DEF OwnGoal, AloneOf, ThreadOf, TempOf, ChosenOf, Labels
  <2>3. ASSUME pc'[w] = "cleanup", NEW left \in {"none", "file"},
               loc' = [loc EXCEPT ![w] = [loc[w] EXCEPT !.temp = left, !.mishap = TRUE]]
        PROVE  OwnGoal(w)
    <3>1. loc'[w] = [loc[w] EXCEPT !.temp = left, !.mishap = TRUE]
      BY <2>3 DEF TypeOK
    <3>2. /\ loc'[w] \in Locals /\ loc'[w].mishap
          /\ loc'[w].ran = loc[w].ran /\ loc'[w].ok = loc[w].ok /\ loc'[w].seen = loc[w].seen
      BY <1>1, <3>1 DEF Locals
    <3> QED
      BY <1>1, <2>1, <2>3, <3>2 DEF OwnGoal, AloneOf, ThreadOf, TempOf, ChosenOf, Labels
  <2> QED
    BY <1>3, <2>2, <2>3 DEF WriteScript, Goto, TypeOK
<1>4. CASE Spawn(w)
  <2>1. pc[w] = "spawn"
    BY <1>4 DEF Spawn
  <2>2. CASE pc'[w] = "stop" /\ loc' = loc
    BY <1>1, <2>1, <2>2 DEF OwnGoal, AloneOf, ThreadOf, TempOf, ChosenOf, Labels
  <2> DEFINE found == IF call[w].kind = "bundle" /\ Truthy(call[w].csv)
                      THEN Tree(call[w])["generated/data.csv"] ELSE Absent
  <2>3. CASE /\ pc'[w] = "running"
             /\ loc' = [loc EXCEPT ![w] = [loc[w] EXCEPT !.ran = TRUE, !.seen = found]]
    <3>1. found \in Datasets \cup {Absent} /\ (call[w].kind # "bundle" => found = Absent)
      BY <1>1, InjectedDataset
    <3>2. loc'[w] = [loc[w] EXCEPT !.ran = TRUE, !.seen = found]
      BY <2>3 DEF TypeOK
    <3> HIDE DEF found
    <3>3. /\ loc'[w] \in Locals /\ loc'[w].ran /\ loc'[w].seen = found
          /\ loc'[w].target = loc[w].target /\ loc'[w].source = loc[w].source
      BY <1>1, <3>1, <3>2 DEF Locals
    <3> QED
      BY <1>1, <2>1, <2>3, <3>1, <3>3 DEF OwnGoal, AloneOf, ThreadOf, TempOf, ChosenOf, Labels
  <2> QED
    BY <1>4, <2>2, <2>3 DEF Spawn, Goto, TypeOK
<1>5. CASE Ends(w)
  <2>1. PICK success \in BOOLEAN : loc' = [loc EXCEPT ![w].ok = success]
    BY <1>5, EndsStep
  <2>2. /\ pc[w] \in {"running", "collect", "blocked"}
        /\ pc'[w] \in {"collect", "blocked", "stop"}
    BY <1>5, EndsStep
  <2>3. /\ loc'[w] \in Locals
        /\ loc'[w].ran = loc[w].ran /\ loc'[w].seen = loc[w].seen
    BY <1>1, <2>1 DEF TypeOK, Locals
  <2> QED
    BY <1>1, <2>2, <2>3 DEF OwnGoal, AloneOf, ThreadOf, TempOf, ChosenOf, Labels
<1> QED
  BY <1>2, <1>3, <1>4, <1>5

\* The finally clauses and the return.
LEMMA EndOwn ==
    ASSUME TypeOK, NEW w \in Workers, AloneOf(w),
           StopMonitoring(w) \/ Cleanup(w) \/ RemoveDir(w) \/ Return(w)
    PROVE  OwnGoal(w)
<1>1. /\ pc[w] \in {"stop", "cleanup", "remove", "done"}
      /\ call[w] \in Calls /\ call[w].kind \in Kinds
      /\ loc[w] \in Locals
    BY CallTypes DEF StopMonitoring, Cleanup, RemoveDir, Return, AloneOf, ThreadOf, TypeOK
<1>2. ASSUME NEW r, NEW W, Become(w, r, W)
      PROVE  loc'[w] = r
  BY <1>2 DEF Become
<1>3. CASE StopMonitoring(w)
  <2>1. pc[w] = "stop" /\ call'[w] = call[w]
    BY <1>3 DEF StopMonitoring
  <2>2. CASE call[w].kind = "script"
    <3>1. PICK r \in Unlink(w) : Become(w, r, Others(w, {Id(w)})) /\ Goto(w, "cleanup")
      BY <1>3, <2>2 DEF StopMonitoring
    <3>2. loc'[w] = r /\ pc'[w] = "cleanup"
      BY <1>2, <3>1 DEF Goto, TypeOK
    <3>3. /\ r \in Locals /\ (r.temp = "none" \/ r.mishap)
          /\ r.ran = loc[w].ran /\ r.ok = loc[w].ok /\ r.seen = loc[w].seen
      BY <1>1 DEF Unlink, Locals
    <3> QED
      BY <1>1, <2>1, <2>2, <3>2, <3>3 DEF OwnGoal, AloneOf, ThreadOf, TempOf, ChosenOf, Labels
  <2>3. CASE call[w].kind = "bundle"
    <3>1. Become(w, loc[w], Others(w, {Id(w)})) /\ Goto(w, "remove")
      BY <1>3, <2>3 DEF StopMonitoring
    <3>2. loc'[w] = loc[w] /\ pc'[w] = "remove"
      BY <1>2, <3>1 DEF Goto, TypeOK
    <3> QED
      BY <1>1, <2>1, <2>3, <3>2 DEF OwnGoal, AloneOf, ThreadOf, TempOf, ChosenOf, Labels
  <2>4. CASE call[w].kind = "data"
    <3>1. Goto(w, "remove") /\ loc' = loc
      BY <1>3, <2>4 DEF StopMonitoring
    <3>2. loc'[w] = loc[w] /\ pc'[w] = "remove"
      BY <3>1 DEF Goto, TypeOK
    <3> QED
      BY <1>1, <2>1, <2>4, <3>2 DEF OwnGoal, AloneOf, ThreadOf, TempOf, ChosenOf, Labels
  <2> QED
    BY <1>1, <2>2, <2>3, <2>4 DEF Kinds
<1>4. CASE Cleanup(w)
  <2>1. pc[w] = "cleanup" /\ pc'[w] = "done" /\ call'[w] = call[w] /\ loc'[w] = loc[w]
    BY <1>2, <1>4 DEF Cleanup, Goto, TypeOK
  <2> QED
    BY <1>1, <2>1 DEF OwnGoal, AloneOf, ThreadOf, TempOf, ChosenOf, Labels
<1>5. CASE RemoveDir(w)
  <2>1. pc[w] = "remove" /\ pc'[w] = "done" /\ call'[w] = call[w]
    BY <1>5 DEF RemoveDir, Goto, TypeOK
  <2>2. CASE loc' = [loc EXCEPT ![w].temp = "none"]
    <3>1. /\ loc'[w] \in Locals /\ loc'[w].temp = "none"
          /\ loc'[w].ran = loc[w].ran /\ loc'[w].ok = loc[w].ok /\ loc'[w].seen = loc[w].seen
      BY <1>1, <2>2 DEF TypeOK, Locals
    <3> QED
      BY <1>1, <2>1, <3>1 DEF OwnGoal, AloneOf, ThreadOf, TempOf, ChosenOf, Labels
  <2>3. CASE loc' = [loc EXCEPT ![w] = [loc[w] EXCEPT !.mishap = TRUE, !.ok = FALSE]]
    <3>1. loc'[w] = [loc[w] EXCEPT !.mishap = TRUE, !.ok = FALSE]
      BY <2>3 DEF TypeOK
    <3>2. /\ loc'[w] \in Locals /\ loc'[w].mishap /\ ~ loc'[w].ok
          /\ loc'[w].ran = loc[w].ran /\ loc'[w].seen = loc[w].seen
      BY <1>1, <3>1 DEF Locals
    <3> QED
      BY <1>1, <2>1, <3>2 DEF OwnGoal, AloneOf, ThreadOf, TempOf, ChosenOf, Labels
  <2> QED
    BY <1>5, <2>2, <2>3 DEF RemoveDir
<1>6. CASE Return(w)
  <2>1. pc'[w] = "idle" /\ call'[w] = NoCall /\ loc'[w] = Fresh
    BY <1>6 DEF Return, Goto, TypeOK
  <2>2. /\ Fresh \in Locals /\ Fresh.temp = "none" /\ ~ Fresh.ran /\ ~ Fresh.ok
        /\ Fresh.seen = Absent
    <3>1. 0 \in 0 .. MaxClock
      BY ExecuteAssumption
    <3> QED
      BY <3>1 DEF Fresh, Locals
  <2> QED
    BY <2>1, <2>2 DEF OwnGoal, AloneOf, ThreadOf, TempOf, ChosenOf, Labels
<1> QED
  BY <1>3, <1>4, <1>5, <1>6

\* Every step of a thread.
LEMMA OwnStep ==
    ASSUME TypeOK, NEW w \in Workers, AloneOf(w), Moves(w)
    PROVE  OwnGoal(w)
  BY BeginOwn, PrepareOwn, RunOwn, EndOwn DEF Moves, Step, Ends

-----------------------------------------------------------------------------
(* The registry.                                                           *)

\* The execution id of a script or a bundle.
LEMMA IdTypes ==
    ASSUME TypeOK, NEW w \in Workers, call[w] \in Calls, call[w].kind \in {"script", "bundle"}
    PROVE  Id(w) \in Ids /\ Id(w).sid = call[w].sid /\ Id(w).kind = call[w].kind
<1>1. loc[w].second \in 0 .. MaxClock /\ call[w].sid \in Sessions
  BY CallTypes DEF TypeOK, Locals
<1> QED
  BY <1>1 DEF Id, Ids

\* What the steps of a thread do to the registry.
Registers(w) ==
    /\ pc[w] = "start" /\ pc'[w] \in {"write", "spawn"}
    /\ call[w].kind \in {"script", "bundle"}
    /\ active' = [active EXCEPT ![Id(w)] = "running"]

Completes(w) ==
    /\ pc[w] = "stop"
    /\ \/ call[w].kind = "script" /\ pc'[w] = "cleanup"
       \/ call[w].kind = "bundle" /\ pc'[w] = "remove"
    /\ Completed(w)
    /\ \A v \in Others(w, {Id(w)}) : loc'[v] = [loc[v] EXCEPT !.disturbed = TRUE]

Clears(w) ==
    /\ pc[w] = "cleanup" /\ pc'[w] = "done" /\ call[w].kind = "script"
    /\ active' = [i \in Ids |-> IF i \in Removed(call[w].sid) THEN "absent" ELSE active[i]]
    /\ \A v \in Others(w, {i \in Ids : i.sid = call[w].sid}) :
          loc'[v] = [loc[v] EXCEPT !.disturbed = TRUE]

\* A step that leaves the registry alone keeps the thread's claim on its entry, and
\* makes it watch an entry only if it did before, or has none.
Passes(w) ==
    /\ active' = active
    /\ pc[w] \in Owned /\ call[w].kind # "data" =>
         pc'[w] \in Owned /\ loc'[w].disturbed = loc[w].disturbed
    /\ pc'[w] \in Monitored /\ call'[w].kind # "data" => pc[w] \in Monitored

\* Every step of a thread is one of these four, and only its last and its first
\* step change its call or the second it began in.
LEMMA RegistrySteps ==
    ASSUME TypeOK, NEW w \in Workers, AloneOf(w), Moves(w)
    PROVE  /\ Registers(w) \/ Completes(w) \/ Clears(w) \/ Passes(w)
           /\ pc[w] \notin {"idle", "done"} =>
                call'[w] = call[w] /\ loc'[w].second = loc[w].second
<1>1. loc[w] \in Locals
  BY DEF TypeOK
<1>2. ASSUME NEW c \in Calls, Begin(w, c)
      PROVE  pc[w] = "idle" /\ pc'[w] = "prepare" /\ active' = active
  BY <1>2 DEF Begin, Goto, TypeOK
<1>3. ASSUME PrepareScript(w) \/ PrepareBundle(w) \/ PrepareData(w)
      PROVE  /\ pc[w] = "prepare" /\ call'[w] = call[w] /\ active' = active
             /\ pc'[w] \notin Monitored \/ (pc'[w] = "spawn" /\ call[w].kind = "data")
             /\ loc'[w].second = loc[w].second
  <2>1. loc'[w].second = loc[w].second
    <3>1. CASE PrepareScript(w)
      BY <1>1, <3>1 DEF PrepareScript, TypeOK, Locals
    <3>2. CASE PrepareBundle(w)
      <4>1. \/ loc'[w] = loc[w]
            \/ loc'[w] = [loc[w] EXCEPT !.temp = "dir"]
            \/ \E n : loc'[w] = [loc[w] EXCEPT !.temp = "dir", !.target = n,
                                               !.source = Text(Tree(call[w]), n)]
        BY <3>2 DEF PrepareBundle, TypeOK
      <4> QED
        BY <1>1, <4>1 DEF TypeOK, Locals
    <3>3. CASE PrepareData(w)
      <4>1. \/ loc'[w] = loc[w]
            \/ loc'[w] = [loc[w] EXCEPT !.temp = "dir"]
            \/ loc'[w] = [loc[w] EXCEPT !.temp = "dir", !.source = call[w].source]
        BY <3>3 DEF PrepareData, TypeOK
      <4> QED
        BY <1>1, <4>1 DEF TypeOK, Locals
    <3> QED
      BY <1>3, <3>1, <3>2, <3>3
  <2>2. pc[w] = "prepare" /\ call'[w] = call[w] /\ active' = active
    BY <1>3 DEF PrepareScript, PrepareBundle, PrepareData
  <2>3. pc'[w] \in {"start", "cleanup", "remove", "done"}
          \/ (pc'[w] = "spawn" /\ call[w].kind = "data")
    BY <1>3 DEF PrepareScript, PrepareBundle, PrepareData, Goto, TypeOK
  <2> QED
    BY <2>1, <2>2, <2>3 DEF Monitored
<1>4. ASSUME StartMonitoring(w)
      PROVE  Registers(w) /\ call'[w] = call[w] /\ loc'[w] = loc[w]
  BY <1>4 DEF StartMonitoring, Registers, Goto, TypeOK, AloneOf, ThreadOf
<1>5. ASSUME WriteScript(w) \/ Spawn(w) \/ Ends(w)
      PROVE  /\ pc[w] \in Monitored /\ pc'[w] \in Owned /\ active' = active
             /\ call'[w] = call[w]
             /\ loc'[w].second = loc[w].second /\ loc'[w].disturbed = loc[w].disturbed
  <2>1. /\ pc[w] \in Monitored /\ active' = active /\ call'[w] = call[w]
        /\ pc'[w] \in Owned
    <3>1. CASE WriteScript(w) \/ Spawn(w)
      BY <3>1 DEF WriteScript, Spawn, Goto, TypeOK, Monitored, Owned
    <3>2. CASE Ends(w)
      BY <3>2, EndsStep DEF Monitored, Owned
    <3> QED
      BY <1>5, <3>1, <3>2
  <2>2. loc'[w].second = loc[w].second /\ loc'[w].disturbed = loc[w].disturbed
    <3>1. CASE WriteScript(w)
      <4>1. \/ loc' = [loc EXCEPT ![w].temp = "file"]
            \/ \E left : loc'[w] = [loc[w] EXCEPT !.temp = left, !.mishap = TRUE]
        BY <3>1 DEF WriteScript, TypeOK
      <4>2. CASE loc' = [loc EXCEPT ![w].temp = "file"]
        BY <1>1, <4>2 DEF TypeOK, Locals
      <4>3. CASE \E left : loc'[w] = [loc[w] EXCEPT !.temp = left, !.mishap = TRUE]
        BY <1>1, <4>3 DEF Locals
      <4> QED
        BY <4>1, <4>2, <4>3
    <3>2. CASE Spawn(w)
      <4>1. \/ loc' = loc
            \/ \E x : loc'[w] = [loc[w] EXCEPT !.ran = TRUE, !.seen = x]
        BY <3>2 DEF Spawn, TypeOK
      <4> QED
        BY <1>1, <4>1 DEF Locals
    <3>3. CASE Ends(w)
      BY <1>1, <3>3, EndsStep DEF TypeOK, Locals
    <3> QED
      BY <1>5, <3>1, <3>2, <3>3
  <2> QED
    BY <2>1, <2>2
<1>6. ASSUME NEW r, NEW W \in SUBSET (Workers \ {w}), Become(w, r, W)
      PROVE  loc'[w] = r /\ \A v \in W : loc'[v] = [loc[v] EXCEPT !.disturbed = TRUE]
  BY <1>6 DEF Become
<1>7. \A I : Others(w, I) \in SUBSET (Workers \ {w})
  BY DEF Others
<1>8. ASSUME StopMonitoring(w)
      PROVE  /\ Completes(w) \/ Passes(w)
             /\ call'[w] = call[w] /\ loc'[w].second = loc[w].second
  <2>1. pc[w] = "stop" /\ call'[w] = call[w] /\ call[w].kind \in Kinds
    BY <1>8, CallTypes DEF StopMonitoring, AloneOf, ThreadOf
  <2>2. CASE call[w].kind = "script"
    <3>1. /\ \E r \in Unlink(w) : Become(w, r, Others(w, {Id(w)}))
          /\ Completed(w) /\ Goto(w, "cleanup")
      BY <1>8, <2>2 DEF StopMonitoring
    <3>2. PICK r \in Unlink(w) : Become(w, r, Others(w, {Id(w)}))
      BY <3>1
    <3>3. r.second = loc[w].second
      BY <1>1 DEF Unlink, Locals
    <3>4. /\ loc'[w] = r
          /\ \A v \in Others(w, {Id(w)}) : loc'[v] = [loc[v] EXCEPT !.disturbed = TRUE]
      BY <1>6, <1>7, <3>2
    <3> QED
      BY <2>1, <2>2, <3>1, <3>3, <3>4 DEF Completes, Goto, TypeOK
  <2>3. CASE call[w].kind = "bundle"
    <3>1. /\ Become(w, loc[w], Others(w, {Id(w)}))
          /\ Completed(w) /\ Goto(w, "remove")
      BY <1>8, <2>3 DEF StopMonitoring
    <3>2. /\ loc'[w] = loc[w]
          /\ \A v \in Others(w, {Id(w)}) : loc'[v] = [loc[v] EXCEPT !.disturbed = TRUE]
      BY <1>6, <1>7, <3>1
    <3> QED
      BY <2>1, <2>3, <3>1, <3>2 DEF Completes, Goto, TypeOK
  <2>4. CASE call[w].kind = "data"
    <3>1. Goto(w, "remove") /\ UNCHANGED <<active, loc>>
      BY <1>8, <2>4 DEF StopMonitoring
    <3> QED
      BY <2>1, <2>4, <3>1 DEF Passes, Goto, TypeOK, Monitored
  <2> QED
    BY <2>1, <2>2, <2>3, <2>4 DEF Kinds
<1>9. ASSUME Cleanup(w)
      PROVE  Clears(w) /\ call'[w] = call[w] /\ loc'[w] = loc[w]
  <2>1. Become(w, loc[w], Others(w, {i \in Ids : i.sid = call[w].sid}))
    BY <1>9 DEF Cleanup
  <2>2. /\ loc'[w] = loc[w]
        /\ \A v \in Others(w, {i \in Ids : i.sid = call[w].sid}) :
             loc'[v] = [loc[v] EXCEPT !.disturbed = TRUE]
    BY <1>6, <1>7, <2>1
  <2> QED
    BY <1>9, <2>2 DEF Cleanup, Clears, Goto, TypeOK, AloneOf, ThreadOf
<1>10. ASSUME RemoveDir(w)
       PROVE  /\ pc[w] = "remove" /\ pc'[w] = "done" /\ active' = active /\ call'[w] = call[w]
              /\ loc'[w].second = loc[w].second
  <2>1. \/ loc' = [loc EXCEPT ![w].temp = "none"]
        \/ loc'[w] = [loc[w] EXCEPT !.mishap = TRUE, !.ok = FALSE]
    BY <1>10 DEF RemoveDir, TypeOK
  <2>2. loc'[w].second = loc[w].second
    BY <1>1, <2>1 DEF TypeOK, Locals
  <2> QED
    BY <1>10, <2>2 DEF RemoveDir, Goto, TypeOK
<1>11. ASSUME Return(w)
       PROVE  pc[w] = "done" /\ pc'[w] = "idle" /\ active' = active
  BY <1>11 DEF Return, Goto, TypeOK
<1> USE DEF Monitored, Owned
<1>12. CASE \E c \in Calls : Begin(w, c)
  BY <1>2, <1>12 DEF Passes
<1>13. CASE PrepareScript(w) \/ PrepareBundle(w) \/ PrepareData(w)
  BY <1>3, <1>13 DEF Passes
<1>14. CASE WriteScript(w) \/ Spawn(w) \/ Ends(w)
  BY <1>5, <1>14 DEF Passes
<1>15. CASE RemoveDir(w) \/ Return(w)
  BY <1>10, <1>11, <1>15 DEF Passes
<1> QED
  BY <1>4, <1>8, <1>9, <1>12, <1>13, <1>14, <1>15 DEF Moves, Step, Ends

\* The per-thread variables stay functions of the threads.
LEMMA StepsKeepFunctions ==
    ASSUME TypeOK, NEW w \in Workers, ThreadOf(w), Moves(w)
    PROVE  /\ pc' = [v \in Workers |-> pc'[v]]
           /\ call' = [v \in Workers |-> call'[v]]
           /\ loc' = [v \in Workers |-> loc'[v]]
<1> DEFINE Shape(f) == f = [v \in Workers |-> f[v]]
<1>1. Shape(pc) /\ Shape(call) /\ Shape(loc)
  BY DEF TypeOK
<1>2. ASSUME NEW label, Goto(w, label)
      PROVE  Shape(pc')
  BY <1>1, <1>2 DEF Goto
<1>3. ASSUME NEW r, loc' = [loc EXCEPT ![w] = r]
      PROVE  Shape(loc')
  BY <1>1, <1>3
<1>4. ASSUME NEW r, NEW W, Become(w, r, W)
      PROVE  Shape(loc')
  BY <1>4 DEF Become
<1>5. CASE \E c \in Calls : Begin(w, c)
  BY <1>1, <1>2, <1>5 DEF Begin
<1>6. CASE PrepareScript(w)
  BY <1>1, <1>2, <1>6 DEF PrepareScript
<1>7. CASE PrepareBundle(w)
  <2>1. Shape(loc')
    BY <1>1, <1>7 DEF PrepareBundle
  <2> QED
    BY <1>1, <1>2, <1>7, <2>1 DEF PrepareBundle
<1>8. CASE PrepareData(w)
  BY <1>1, <1>2, <1>8 DEF PrepareData
<1>9. CASE StartMonitoring(w)
  BY <1>1, <1>2, <1>9 DEF StartMonitoring
<1>10. CASE WriteScript(w)
  BY <1>1, <1>2, <1>10 DEF WriteScript
<1>11. CASE Spawn(w)
  BY <1>1, <1>2, <1>11 DEF Spawn
<1>12. CASE Ends(w)
  BY <1>1, <1>2, <1>12, EndsStep
<1>13. CASE StopMonitoring(w)
  <2>1. pc[w] = "stop" /\ call[w].kind \in Kinds
    BY <1>13, CallTypes DEF StopMonitoring, ThreadOf
  <2>2. CASE call[w].kind = "script"
    <3>1. /\ \E r \in Unlink(w) : Become(w, r, Others(w, {Id(w)}))
          /\ Goto(w, "cleanup") /\ UNCHANGED call
      BY <1>13, <2>2 DEF StopMonitoring
    <3> QED
      BY <1>1, <1>2, <1>4, <3>1
  <2>3. CASE call[w].kind = "bundle"
    <3>1. Become(w, loc[w], Others(w, {Id(w)})) /\ Goto(w, "remove") /\ UNCHANGED call
      BY <1>13, <2>3 DEF StopMonitoring
    <3> QED
      BY <1>1, <1>2, <1>4, <3>1
  <2>4. CASE call[w].kind = "data"
    <3>1. Goto(w, "remove") /\ UNCHANGED <<call, loc>>
      BY <1>13, <2>4 DEF StopMonitoring
    <3> QED
      BY <1>1, <1>2, <3>1
  <2> QED
    BY <2>1, <2>2, <2>3, <2>4 DEF Kinds
<1>14. CASE Cleanup(w)
  BY <1>1, <1>2, <1>4, <1>14 DEF Cleanup
<1>15. CASE RemoveDir(w)
  BY <1>1, <1>2, <1>15 DEF RemoveDir
<1>16. CASE Return(w)
  BY <1>1, <1>2, <1>16 DEF Return
<1> QED
  BY <1>5, <1>6, <1>7, <1>8, <1>9, <1>10, <1>11, <1>12, <1>13, <1>14, <1>15, <1>16
     DEF Moves, Step, Ends

\* The variables keep their types.
LEMMA TypeStep ==
    ASSUME TypeOK, \A w \in Workers : AloneOf(w), [Next]_vars
    PROVE  TypeOK'
<1>1. ASSUME NEW w \in Workers, Moves(w)
      PROVE  TypeOK'
  <2>1. AloneOf(w) /\ OwnGoal(w)
    BY <1>1, OwnStep
  <2>2. \A v \in Workers : /\ pc'[v] \in Labels
                           /\ call'[v] \in Calls \cup {NoCall}
                           /\ loc'[v] \in Locals
    <3> TAKE v \in Workers
    <3>1. CASE v = w
      BY <2>1, <3>1 DEF OwnGoal
    <3>2. CASE v # w
      <4>1. Bystander(v)
        BY <1>1, <2>1, <3>2, OthersStandBy DEF AloneOf
      <4> QED
        BY <4>1, BystanderFields DEF TypeOK
    <3> QED
      BY <3>1, <3>2
  <2>3. /\ pc' = [v \in Workers |-> pc'[v]]
        /\ call' = [v \in Workers |-> call'[v]]
        /\ loc' = [v \in Workers |-> loc'[v]]
    BY <1>1, <2>1, StepsKeepFunctions DEF AloneOf
  <2>4. active' \in [Ids -> Statuses]
    <3>1. call[w].kind \in {"script", "bundle"} /\ pc[w] # "idle" => Id(w) \in Ids
      BY <2>1, IdTypes DEF AloneOf, ThreadOf
    <3>2. CASE Registers(w)
      BY <3>1, <3>2 DEF Registers, TypeOK, Statuses
    <3>3. CASE Completes(w)
      BY <3>1, <3>3 DEF Completes, Completed, TypeOK, Statuses
    <3>4. CASE Clears(w)
      BY <3>4 DEF Clears, TypeOK, Statuses
    <3>5. CASE Passes(w)
      BY <3>5 DEF Passes, TypeOK
    <3> QED
      BY <1>1, <2>1, <3>2, <3>3, <3>4, <3>5, RegistrySteps
  <2>5. clock' \in 0 .. MaxClock /\ begun' \in 0 .. MaxCalls
    <3>1. clock' = clock /\ (begun' = begun \/ (begun < MaxCalls /\ begun' = begun + 1))
      BY <1>1 DEF Moves, Step, Begin, PrepareScript, PrepareBundle, PrepareData,
         StartMonitoring, WriteScript, Spawn, RunEnds, Collect, Released, StopMonitoring,
         Cleanup, RemoveDir, Return
    <3> QED
      BY <3>1, ExecuteAssumption DEF TypeOK
  <2> QED
    BY <2>2, <2>3, <2>4, <2>5 DEF TypeOK
<1>2. ASSUME NEW i \in Ids, TerminateExecution(i)
      PROVE  TypeOK'
  <2>1. \A v \in Workers : [loc[v] EXCEPT !.disturbed = TRUE] \in Locals
    <3> TAKE v \in Workers
    <3>1. loc[v] \in Locals
      BY DEF TypeOK
    <3> QED
      BY ONLY <3>1 DEF Locals
  <2>2. loc' \in [Workers -> Locals]
    BY <1>2, <2>1 DEF TerminateExecution, TypeOK
  <2> QED
    BY <1>2, <2>2 DEF TerminateExecution, TypeOK, Statuses
<1>3. CASE Tick
  BY <1>3, ExecuteAssumption DEF Tick, TypeOK
<1>4. CASE UNCHANGED vars
  BY <1>4 DEF vars, TypeOK
<1> QED
  BY <1>1, <1>2, <1>3, <1>4 DEF Next, Moves

\* terminate_execution only disturbs the execution it terminates.
LEMMA TerminateDisturbs ==
    ASSUME TypeOK, NEW i \in Ids, TerminateExecution(i), NEW v \in Workers
    PROVE  /\ Bystander(v)
           /\ Owns(v, i) => loc'[v].disturbed
<1>1. loc[v] \in Locals
  BY DEF TypeOK
<1> QED
  BY <1>1 DEF TerminateExecution, Bystander, Locals

\* A bystander owns after the step what it owned before.
LEMMA BystanderOwns ==
    ASSUME TypeOK, NEW v \in Workers, Bystander(v), NEW i
    PROVE  Owns(v, i)' <=> Owns(v, i)
  BY BystanderFields DEF Owns, Id

\* A step keeps OnlyEndedBundlesRemain: a thread gives its entry up only when it has
\* completed a bundle's, or has deleted all of the session's.
LEMMA RemainStep ==
    ASSUME TypeOK, \A w \in Workers : AloneOf(w), OnlyEndedBundlesRemain, [Next]_vars
    PROVE  OnlyEndedBundlesRemain'
<1>1. ASSUME NEW w \in Workers, Moves(w), NEW i \in Ids, active'[i] # "absent",
             \A v \in Workers : ~ Owns(v, i)'
      PROVE  i.kind = "bundle" /\ active'[i] # "running"
  <2>1. AloneOf(w)
    OBVIOUS
  <2>2. \A v \in Workers : v # w => ~ Owns(v, i)
    <3> TAKE v \in Workers
    <3> HAVE v # w
    <3>1. Bystander(v)
      BY <1>1, <2>1, OthersStandBy DEF AloneOf
    <3> QED
      BY <1>1, <3>1, BystanderOwns
  <2>3. active[i] # "absent" /\ ~ Owns(w, i) => i.kind = "bundle" /\ active[i] # "running"
    BY <2>2 DEF OnlyEndedBundlesRemain
  <2>4. pc[w] \notin {"idle", "done"} => (Id(w)' = Id(w) /\ call'[w] = call[w])
    BY <1>1, <2>1, RegistrySteps DEF Id
  <2>5. pc[w] # "idle" => call[w] \in Calls
    BY <2>1 DEF AloneOf, ThreadOf
  <2>6. CASE Registers(w)
    <3>1. Owns(w, Id(w))' /\ ~ Owns(w, i)
      BY <2>4, <2>6 DEF Registers, Owns, Owned, Monitored
    <3>2. i # Id(w)
      BY <1>1, <2>4, <2>6, <3>1 DEF Registers
    <3>3. active'[i] = active[i]
      BY <2>6, <3>2 DEF Registers, TypeOK
    <3> QED
      BY <1>1, <2>3, <3>1, <3>3
  <2>7. CASE Completes(w)
    <3>1. Id(w) \in Ids /\ Id(w).kind = call[w].kind
      BY <2>5, <2>7, IdTypes DEF Completes
    <3>2. CASE i = Id(w)
      <4>1. call[w].kind # "script"
        <5>1. call[w].kind = "script" => Owns(w, i)'
          BY <2>4, <2>7, <3>2 DEF Completes, Owns, Owned
        <5> QED
          BY <1>1, <5>1
      <4>2. active'[i] \in {"absent", "completed"}
        BY <2>7, <3>1, <3>2 DEF Completes, Completed, TypeOK
      <4> QED
        BY <1>1, <2>7, <3>1, <3>2, <4>1, <4>2 DEF Completes
    <3>3. CASE i # Id(w)
      <4>1. active'[i] = active[i] /\ ~ Owns(w, i)
        BY <2>7, <3>3 DEF Completes, Completed, TypeOK, Owns
      <4> QED
        BY <1>1, <2>3, <4>1
    <3> QED
      BY <3>2, <3>3
  <2>8. CASE Clears(w)
    <3>1. Id(w).sid = call[w].sid
      BY DEF Id
    <3>2. i \notin Removed(call[w].sid) /\ active'[i] = active[i]
      BY <1>1, <2>8 DEF Clears
    <3>3. ~ Owns(w, i)
      BY <1>1, <3>1, <3>2 DEF Removed, Owns
    <3> QED
      BY <1>1, <2>3, <3>2, <3>3
  <2>9. CASE Passes(w)
    <3>1. Owns(w, i) => Owns(w, i)'
      BY <2>4, <2>9 DEF Passes, Owns, Owned, Monitored
    <3> QED
      BY <1>1, <2>3, <2>9, <3>1 DEF Passes
  <2> QED
    BY <1>1, <2>1, <2>6, <2>7, <2>8, <2>9, RegistrySteps
<1>2. ASSUME NEW j \in Ids, TerminateExecution(j), NEW i \in Ids, active'[i] # "absent",
             \A v \in Workers : ~ Owns(v, i)'
      PROVE  i.kind = "bundle" /\ active'[i] # "running"
  <2>1. \A v \in Workers : ~ Owns(v, i)
    BY <1>2, TerminateDisturbs, BystanderOwns
  <2>2. active[i] # "absent" /\ active'[i] \in {active[i], "terminated"}
    BY <1>2 DEF TerminateExecution, TypeOK
  <2> QED
    BY <2>1, <2>2 DEF OnlyEndedBundlesRemain
<1>3. CASE Tick \/ UNCHANGED vars
  BY <1>3 DEF Tick, vars, OnlyEndedBundlesRemain, Owns, Id
<1> QED
  BY <1>1, <1>2, <1>3 DEF Next, Moves, OnlyEndedBundlesRemain

\* A step keeps StatusHonest: whoever changes an entry disturbs its owners.
LEMMA HonestStep ==
    ASSUME TypeOK, \A w \in Workers : AloneOf(w), StatusHonest, [Next]_vars
    PROVE  StatusHonest'
<1>1. ASSUME NEW v \in Workers, Bystander(v),
             pc'[v] \in Monitored, call'[v].kind # "data", ~ loc'[v].disturbed
      PROVE  /\ Id(v)' = Id(v) /\ Id(v) \in Ids /\ Owns(v, Id(v))
             /\ Id(v).sid = call[v].sid
             /\ active[Id(v)] = "running"
  <2>1. /\ pc[v] \in Monitored /\ call[v].kind # "data" /\ ~ loc[v].disturbed
        /\ Id(v)' = Id(v)
    BY <1>1, BystanderFields DEF Id
  <2>2. call[v] \in Calls
    BY <2>1 DEF AloneOf, ThreadOf, Monitored
  <2>3. call[v].kind \in {"script", "bundle"}
    BY <2>1, <2>2, CallTypes DEF Kinds
  <2> QED
    BY <2>1, <2>2, <2>3, IdTypes DEF StatusHonest, Owns, Owned
<1>2. ASSUME NEW v \in Workers, ~ loc'[v].disturbed
      PROVE  loc'[v] # [loc[v] EXCEPT !.disturbed = TRUE]
  <2>1. loc[v] \in Locals
    BY DEF TypeOK
  <2> QED
    BY <1>2, <2>1 DEF Locals
<1>3. ASSUME NEW w \in Workers, Moves(w), NEW v \in Workers,
             pc'[v] \in Monitored, call'[v].kind # "data", ~ loc'[v].disturbed
      PROVE  active'[Id(v)'] = "running"
  <2>1. AloneOf(w)
    OBVIOUS
  <2>2. CASE v = w
    <3>1. pc[w] \notin {"idle", "done"} =>
            (Id(w)' = Id(w) /\ call'[w] = call[w] /\ call[w] \in Calls)
      BY <1>3, <2>1, RegistrySteps DEF Id, AloneOf, ThreadOf
    <3>2. CASE Registers(w)
      <4>1. Id(w) \in Ids
        BY <3>1, <3>2, IdTypes DEF Registers
      <4> QED
        BY <2>2, <3>1, <3>2, <4>1 DEF Registers, TypeOK
    <3>3. CASE Completes(w) \/ Clears(w)
      BY <1>3, <2>2, <3>3 DEF Completes, Clears, Monitored
    <3>4. CASE Passes(w)
      BY <1>3, <2>2, <3>1, <3>4 DEF Passes, Monitored, Owned, StatusHonest
    <3> QED
      BY <1>3, <2>1, <3>2, <3>3, <3>4, RegistrySteps
  <2>3. CASE v # w
    <3>1. Bystander(v)
      BY <1>3, <2>1, <2>3, OthersStandBy DEF AloneOf
    <3>2. /\ Id(v)' = Id(v) /\ Id(v) \in Ids /\ Owns(v, Id(v))
          /\ Id(v).sid = call[v].sid
          /\ active[Id(v)] = "running"
      BY <1>1, <1>3, <3>1
    <3>3. CASE Registers(w)
      BY <3>2, <3>3 DEF Registers, TypeOK
    <3>4. CASE Completes(w)
      <4>1. Id(v) # Id(w)
        <5>1. Id(v) = Id(w) => v \in Others(w, {Id(w)})
          BY <2>3, <3>2 DEF Others
        <5> QED
          BY <1>2, <1>3, <3>4, <5>1 DEF Completes
      <4> QED
        BY <3>2, <3>4, <4>1 DEF Completes, Completed, TypeOK
    <3>5. CASE Clears(w)
      <4>1. Id(v).sid # call[w].sid
        <5>1. Id(v).sid = call[w].sid => v \in Others(w, {i \in Ids : i.sid = call[w].sid})
          BY <2>3, <3>2 DEF Others
        <5> QED
          BY <1>2, <1>3, <3>5, <5>1 DEF Clears
      <4> QED
        BY <3>2, <3>5, <4>1 DEF Clears, Removed
    <3>6. CASE Passes(w)
      BY <3>2, <3>6 DEF Passes
    <3> QED
      BY <1>3, <2>1, <3>3, <3>4, <3>5, <3>6, RegistrySteps
  <2> QED
    BY <2>2, <2>3
<1>4. ASSUME NEW i \in Ids, TerminateExecution(i), NEW v \in Workers,
             pc'[v] \in Monitored, call'[v].kind # "data", ~ loc'[v].disturbed
      PROVE  active'[Id(v)'] = "running"
  <2>1. Bystander(v) /\ ~ Owns(v, i)
    BY <1>4, TerminateDisturbs
  <2>2. Id(v)' = Id(v) /\ Id(v) \in Ids /\ Owns(v, Id(v)) /\ active[Id(v)] = "running"
    BY <1>1, <1>4, <2>1
  <2> QED
    BY <1>4, <2>1, <2>2 DEF TerminateExecution, TypeOK
<1>5. CASE Tick \/ UNCHANGED vars
  BY <1>5 DEF Tick, vars, StatusHonest, Id
<1> QED
  BY <1>3, <1>4, <1>5 DEF Next, Moves, StatusHonest

\* What holds of each thread alone stays true: its own steps keep it, the others only
\* disturb it.
LEMMA AloneStep ==
    ASSUME TypeOK, \A w \in Workers : AloneOf(w), [Next]_vars
    PROVE  \A v \in Workers : AloneOf(v)'
<1> TAKE v \in Workers
<1>1. ASSUME NEW w \in Workers, Moves(w)
      PROVE  AloneOf(v)'
  <2>1. AloneOf(w)
    OBVIOUS
  <2>2. CASE v = w
    BY <1>1, <2>1, <2>2, OwnStep DEF OwnGoal
  <2>3. CASE v # w
    BY <1>1, <2>1, <2>3, OthersStandBy, AloneOfBystander DEF AloneOf
  <2> QED
    BY <2>2, <2>3
<1>2. ASSUME NEW i \in Ids, TerminateExecution(i)
      PROVE  AloneOf(v)'
  BY <1>2, TerminateDisturbs, AloneOfBystander
<1>3. CASE Tick \/ UNCHANGED vars
  BY <1>3 DEF Tick, vars, AloneOf, ThreadOf, TempOf, ChosenOf
<1> QED
  BY <1>1, <1>2, <1>3 DEF Next, Moves

\* The service starts with no thread in it and an empty registry.
LEMMA ExecuteInvInit ==
    Init => TypeOK /\ ExecuteInv
<1> SUFFICES ASSUME Init PROVE TypeOK /\ ExecuteInv
  OBVIOUS
<1>1. /\ Fresh \in Locals /\ Fresh.temp = "none" /\ ~ Fresh.ran /\ ~ Fresh.ok
      /\ Fresh.seen = Absent
  <2>1. 0 \in 0 .. MaxClock
    BY ExecuteAssumption
  <2> QED
    BY <2>1 DEF Fresh, Locals
<1>2. TypeOK
  <2>1. 0 \in 0 .. MaxClock /\ 0 \in 0 .. MaxCalls
    BY ExecuteAssumption
  <2> QED
    BY <1>1, <2>1 DEF Init, TypeOK, Statuses, Labels
<1>3. \A w \in Workers : AloneOf(w)
  BY <1>1 DEF Init, AloneOf, ThreadOf, TempOf, ChosenOf, NoCall
<1>4. OnlyEndedBundlesRemain /\ StatusHonest
  BY DEF Init, OnlyEndedBundlesRemain, StatusHonest, Monitored
<1> QED
  BY <1>2, <1>3, <1>4 DEF ExecuteInv

\* ExecuteInv is inductive.
LEMMA ExecuteInvStep ==
    TypeOK /\ ExecuteInv /\ [Next]_vars => TypeOK' /\ ExecuteInv'
<1> SUFFICES ASSUME TypeOK, ExecuteInv, [Next]_vars PROVE TypeOK' /\ ExecuteInv'
  OBVIOUS
<1>1. \A w \in Workers : AloneOf(w)
  BY DEF ExecuteInv
<1>2. TypeOK'
  BY <1>1, TypeStep
<1>3. \A w \in Workers : AloneOf(w)'
  BY <1>1, AloneStep
<1>4. OnlyEndedBundlesRemain'
  BY <1>1, RemainStep DEF ExecuteInv
<1>5. StatusHonest'
  BY <1>1, HonestStep DEF ExecuteInv
<1> QED
  BY <1>2, <1>3, <1>4, <1>5 DEF ExecuteInv

-----------------------------------------------------------------------------
(* The theorems.                                                           *)

\* Every reachable state of the service has its types and satisfies ExecuteInv.
THEOREM ExecuteInvariant == Spec => [](TypeOK /\ ExecuteInv)
  BY ExecuteInvInit, ExecuteInvStep, PTL DEF Spec

\* However executions of the same session, id or second overlap, fail or are
\* terminated, what stays in _active_executions is a bundle's and not running.
THEOREM RegistryEmpties == Spec => []OnlyEndedBundlesRemain
<1>1. ExecuteInv => OnlyEndedBundlesRemain
  BY DEF ExecuteInv
<1> QED
  BY <1>1, ExecuteInvariant, PTL

\* monitor_execution reports a running script as running, unless it was terminated or
\* its entry was shared with, or cleared by, another execution of the session.
THEOREM RunningReported == Spec => []StatusHonest
<1>1. ExecuteInv => StatusHonest
  BY DEF ExecuteInv
<1> QED
  BY <1>1, ExecuteInvariant, PTL

\* No call returns with plaintext left on disk, unless the file system failed.
THEOREM PlaintextGone == Spec => []PlaintextRemoved
<1>1. ExecuteInv => PlaintextRemoved
  BY DEF ExecuteInv, AloneOf, TempOf, PlaintextRemoved
<1> QED
  BY <1>1, ExecuteInvariant, PTL

\* A bundle's process runs a validated script, as it lies in the directory after the
\* injection: without a path an entry of the bundle, the one _find_script prefers; with
\* a path the file of that path.  The bundle is within both limits of
\* _safe_extract_zip.
THEOREM OnlyCheckedScriptsRun == Spec => []ScriptChecked
<1>1. ExecuteInv => ScriptChecked
  <2> SUFFICES ASSUME ExecuteInv, NEW w \in Workers,
                      pc[w] = "running", call[w].kind = "bundle"
               PROVE  LET c == call[w]
                          run == <<loc[w].target, loc[w].source>>
                          names == {e.name : e \in c.bundle.entries}
                          files == {<<e.name, e.body>> : e \in c.bundle.entries}
                          injected == Truthy(c.csv) /\ c.path = "generated/data.csv" IN
                      /\ ValidateScript(loc[w].source)
                      /\ Cardinality(c.bundle.entries) =< MAX_ZIP_ENTRIES
                      /\ ~ (TotalSize(c.bundle) > MAX_ZIP_TOTAL_SIZE)
                      /\ c.path = Absent =>
                           /\ run \in files
                           /\ run[1] # "main.py" => "main.py" \notin names
                           /\ run[1] \notin {"main.py", "script.py"} => "script.py" \notin names
                           /\ run[1] \in OtherScripts => "run.py" \notin names
                      /\ c.path # Absent =>
                           /\ run[1] = c.path
                           /\ injected => run[2] = c.csv
                           /\ ~ injected => run \in files \/ c.path \in DOMAIN Outside
    BY DEF ScriptChecked
  <2> DEFINE c == call[w]
             n == loc[w].target
             src == loc[w].source
             run == <<n, src>>
             names == {e.name : e \in c.bundle.entries}
             files == {<<e.name, e.body>> : e \in c.bundle.entries}
             injected == Truthy(c.csv) /\ c.path = "generated/data.csv"
  <2>1. c \in Calls /\ n \in Runnable(c) /\ src = Text(Tree(c), n) /\ c.kind = "bundle"
    BY DEF ExecuteInv, AloneOf, ThreadOf, ChosenOf
  <2> HIDE DEF c, n, src
  <2>2. c.path \in Names \cup DOMAIN Outside \cup {Absent} /\ IsFiniteSet(c.bundle.entries)
    BY <2>1, CallTypes
  <2>3. /\ ValidateScript(src)
        /\ n \in FindScript(Tree(c), c.path)
        /\ ~ (Cardinality(c.bundle.entries) > MAX_ZIP_ENTRIES)
        /\ ~ (TotalSize(c.bundle) > MAX_ZIP_TOTAL_SIZE)
    BY <2>1, RunnableScripts
  <2>4. DOMAIN Extracted(c.bundle) = names
    BY DEF Extracted
  <2>5. ASSUME n \in DOMAIN Tree(c), ~ Truthy(c.csv) \/ n # "generated/data.csv"
        PROVE  run \in files
    <3>1. src = Extracted(c.bundle)[n] /\ n \in names
      BY <2>1, <2>4, <2>5, TreeFiles DEF Text
    <3>2. Extracted(c.bundle)[n] = (CHOOSE e \in c.bundle.entries : e.name = n).body
      BY <3>1 DEF Extracted
    <3>3. \E e \in c.bundle.entries : e.name = n
      BY <3>1
    <3>4. /\ (CHOOSE e \in c.bundle.entries : e.name = n) \in c.bundle.entries
          /\ (CHOOSE e \in c.bundle.entries : e.name = n).name = n
      BY <3>3
    <3> QED
      BY <3>1, <3>2, <3>4
  <2>6. Cardinality(c.bundle.entries) =< MAX_ZIP_ENTRIES
    <3>1. Cardinality(c.bundle.entries) \in Nat
      BY <2>2, FS_CardinalityType
    <3> QED
      BY <2>3, <3>1, ExecuteAssumption
  <2>7. ASSUME c.path = Absent
        PROVE  /\ run \in files
               /\ n # "main.py" => "main.py" \notin names
               /\ n \notin {"main.py", "script.py"} => "script.py" \notin names
               /\ n \in OtherScripts => "run.py" \notin names
    <3>1. /\ n \in ScriptNames /\ n \in DOMAIN Tree(c)
          /\ n # "main.py" => "main.py" \notin DOMAIN Tree(c)
          /\ n \notin {"main.py", "script.py"} => "script.py" \notin DOMAIN Tree(c)
          /\ n \in OtherScripts => "run.py" \notin DOMAIN Tree(c)
      BY <2>2, <2>3, <2>7, FindScriptFinds
    <3>2. \A m \in ScriptNames : m \in DOMAIN Tree(c) <=> m \in names
      BY <2>4, TreeFiles DEF ScriptNames, OtherScripts
    <3>3. n # "generated/data.csv"
      BY <3>1 DEF ScriptNames, OtherScripts
    <3>4. run \in files
      BY <2>5, <3>1, <3>3
    <3> HIDE DEF names, files, run
    <3> QED
      BY <3>1, <3>2, <3>4 DEF ScriptNames
  <2>8. ASSUME c.path # Absent
        PROVE  /\ n = c.path
               /\ injected => src = c.csv
               /\ ~ injected => run \in files \/ c.path \in DOMAIN Outside
    <3>1. n = c.path /\ n \in DOMAIN Tree(c) \cup DOMAIN Outside
      BY <2>2, <2>3, <2>8, FindScriptFinds
    <3>2. CASE injected
      <4>1. Tree(c)["generated/data.csv"] = c.csv /\ "generated/data.csv" \in DOMAIN Tree(c)
        BY <3>2 DEF Tree, WithFile
      <4> QED
        BY <2>1, <3>1, <3>2, <4>1 DEF Text
    <3>3. CASE ~ injected
      BY <2>5, <3>1, <3>3
    <3> QED
      BY <3>2, <3>3
  <2>9. run[1] = n /\ run[2] = src
    OBVIOUS
  <2> QED
    BY <2>3, <2>6, <2>7, <2>8, <2>9 DEF c, n, src
<1> QED
  BY <1>1, ExecuteInvariant, PTL

-----------------------------------------------------------------------------
(* The service implements ExecutionContract.                               *)

\* The refinement mapping, for one thread.
PhaseOf(w) == IF call[w].kind # "bundle" THEN "idle"
              ELSE IF pc[w] = "done" THEN "over"
              ELSE IF loc[w].ran THEN "running" ELSE "asked"

GivenOf(w) == IF call[w].kind = "bundle" /\ Truthy(call[w].csv) THEN call[w].csv ELSE Absent

OkOf(w) == call[w].kind = "bundle" /\ pc[w] = "done" /\ loc[w].ok

\* What a step does to thread w's part of the contract.
Quiet(w) ==
    /\ PhaseOf(w)' = PhaseOf(w) /\ GivenOf(w)' = GivenOf(w)
    /\ loc'[w].seen = loc[w].seen /\ OkOf(w)' = OkOf(w)

Asks(w) ==
    /\ PhaseOf(w) = "idle" /\ PhaseOf(w)' = "asked"
    /\ GivenOf(w)' \in Datasets \cup {Absent}
    /\ loc'[w].seen = loc[w].seen /\ OkOf(w)' = OkOf(w)

Starts(w) ==
    /\ PhaseOf(w) = "asked" /\ PhaseOf(w)' = "running"
    /\ GivenOf(w)' = GivenOf(w)
    /\ loc'[w].seen = GivenOf(w) /\ OkOf(w)' = OkOf(w)

Refuses(w) ==
    /\ PhaseOf(w) = "asked" /\ PhaseOf(w)' = "over"
    /\ GivenOf(w)' = GivenOf(w)
    /\ loc'[w].seen = loc[w].seen /\ OkOf(w)' = OkOf(w)

Finishes(w) ==
    /\ PhaseOf(w) = "running" /\ PhaseOf(w)' = "over"
    /\ GivenOf(w)' = GivenOf(w)
    /\ loc'[w].seen = loc[w].seen

Forgets(w) ==
    /\ PhaseOf(w) = "over" /\ PhaseOf(w)' = "idle"
    /\ GivenOf(w)' = Absent
    /\ loc'[w].seen = Absent /\ OkOf(w)' = FALSE

\* The fields the contract speaks of, when a step leaves them alone.
SameRun(w) == /\ loc'[w].ran = loc[w].ran
              /\ loc'[w].seen = loc[w].seen
              /\ loc'[w].ok = loc[w].ok

\* Which step of the contract each step of a thread is.
LEMMA ContractSteps ==
    ASSUME TypeOK, NEW w \in Workers, AloneOf(w), Moves(w)
    PROVE  \/ Quiet(w) \/ Asks(w) \/ Starts(w) \/ Refuses(w) \/ Finishes(w) \/ Forgets(w)
<1> USE DEF PhaseOf, GivenOf, OkOf
<1>1. loc[w] \in Locals
  BY DEF TypeOK
<1>2. CASE \E c \in Calls : Begin(w, c)
  <2>1. PICK c \in Calls : Begin(w, c)
    BY <1>2
  <2>2. /\ pc[w] = "idle" /\ pc'[w] = "prepare" /\ call'[w] = c
        /\ loc'[w] = [Fresh EXCEPT !.second = clock]
    BY <2>1 DEF Begin, Goto, TypeOK
  <2>3. ~ loc'[w].ran /\ loc'[w].seen = Absent
    BY <2>2 DEF Fresh
  <2>4. call[w] = NoCall /\ loc[w].seen = Absent
    BY <2>2 DEF AloneOf, ThreadOf
  <2>5. call[w].kind # "bundle"
    BY <2>4 DEF NoCall
  <2>6. c.kind = "bundle" => c.csv \in Datasets \cup {EmptyBytes, Absent}
    BY CallTypes
  <2>7. CASE c.kind = "bundle"
    BY <2>2, <2>3, <2>4, <2>5, <2>6, <2>7 DEF Asks, Truthy
  <2>8. CASE c.kind # "bundle"
    BY <2>2, <2>3, <2>4, <2>5, <2>8 DEF Quiet
  <2> QED
    BY <2>7, <2>8
<1>3. CASE PrepareScript(w) \/ PrepareBundle(w) \/ PrepareData(w)
  <2>1. /\ pc[w] = "prepare" /\ call'[w] = call[w] /\ ~ loc[w].ran /\ ~ loc[w].ok
    BY <1>3 DEF PrepareScript, PrepareBundle, PrepareData, AloneOf, ThreadOf
  <2>2. SameRun(w)
    <3>1. CASE PrepareScript(w)
      <4>1. loc' = loc \/ loc' = [loc EXCEPT ![w].source = call[w].source]
        BY <3>1 DEF PrepareScript
      <4> QED
        BY <1>1, <4>1 DEF TypeOK, Locals, SameRun
    <3>2. CASE PrepareBundle(w)
      <4>1. \/ loc'[w] = loc[w]
            \/ loc'[w] = [loc[w] EXCEPT !.temp = "dir"]
            \/ \E n : loc'[w] = [loc[w] EXCEPT !.temp = "dir", !.target = n,
                                               !.source = Text(Tree(call[w]), n)]
        BY <3>2 DEF PrepareBundle, TypeOK
      <4> QED
        BY ONLY <1>1, <4>1 DEF Locals, SameRun
    <3>3. CASE PrepareData(w)
      <4>1. \/ loc'[w] = loc[w]
            \/ loc'[w] = [loc[w] EXCEPT !.temp = "dir"]
            \/ loc'[w] = [loc[w] EXCEPT !.temp = "dir", !.source = call[w].source]
        BY <3>3 DEF PrepareData, TypeOK
      <4> QED
        BY ONLY <1>1, <4>1 DEF Locals, SameRun
    <3> QED
      BY <1>3, <3>1, <3>2, <3>3
  <2>3. CASE pc'[w] = "done"
    BY <2>1, <2>2, <2>3 DEF SameRun, Refuses, Quiet
  <2>4. CASE pc'[w] # "done"
    BY <2>1, <2>2, <2>4 DEF SameRun, Quiet
  <2> QED
    BY <2>3, <2>4
<1>4. CASE StartMonitoring(w)
  <2>1. /\ pc[w] = "start" /\ pc'[w] \in {"write", "spawn"}
        /\ call'[w] = call[w] /\ loc'[w] = loc[w]
    BY <1>4 DEF StartMonitoring, Goto, TypeOK
  <2> QED
    BY <2>1 DEF Quiet
<1>5. CASE WriteScript(w)
  <2>1. /\ pc[w] = "write" /\ pc'[w] \in {"spawn", "cleanup"} /\ call'[w] = call[w]
        /\ call[w].kind = "script"
    BY <1>5 DEF WriteScript, Goto, TypeOK, AloneOf, ThreadOf
  <2>2. \/ loc' = [loc EXCEPT ![w].temp = "file"]
        \/ \E left : loc'[w] = [loc[w] EXCEPT !.temp = left, !.mishap = TRUE]
    BY <1>5 DEF WriteScript, TypeOK
  <2>3. loc'[w].seen = loc[w].seen
    BY <1>1, <2>2 DEF TypeOK, Locals
  <2> QED
    BY <2>1, <2>3 DEF Quiet
<1>6. CASE Spawn(w)
  <2>1. pc[w] = "spawn" /\ call'[w] = call[w] /\ ~ loc[w].ran /\ loc[w].seen = Absent
    BY <1>6 DEF Spawn, AloneOf, ThreadOf
  <2>2. call[w] \in Calls
    BY <2>1 DEF AloneOf, ThreadOf
  <2>3. CASE loc' = loc /\ pc'[w] = "stop"
    BY <2>1, <2>3 DEF Quiet
  <2> DEFINE found == IF call[w].kind = "bundle" /\ Truthy(call[w].csv)
                      THEN Tree(call[w])["generated/data.csv"] ELSE Absent
  <2>4. found = GivenOf(w)
    BY <2>2, InjectedDataset
  <2>5. CASE /\ pc'[w] = "running"
             /\ loc' = [loc EXCEPT ![w] = [loc[w] EXCEPT !.ran = TRUE, !.seen = found]]
    <3>1. loc'[w] = [loc[w] EXCEPT !.ran = TRUE, !.seen = found]
      BY <2>5 DEF TypeOK
    <3> HIDE DEF found
    <3>2. loc'[w].ran /\ loc'[w].seen = found
      BY <1>1, <3>1 DEF Locals
    <3> QED
      BY <2>1, <2>4, <2>5, <3>2 DEF Starts, Quiet
  <2> QED
    BY <1>6, <2>3, <2>5 DEF Spawn, Goto, TypeOK
<1>7. CASE Ends(w)
  <2>1. PICK success \in BOOLEAN : loc' = [loc EXCEPT ![w].ok = success]
    BY <1>7, EndsStep
  <2>2. /\ pc[w] \in {"running", "collect", "blocked"}
        /\ pc'[w] \in {"collect", "blocked", "stop"} /\ call'[w] = call[w]
    BY <1>7, EndsStep
  <2>3. loc'[w].ran = loc[w].ran /\ loc'[w].seen = loc[w].seen
    BY <1>1, <2>1 DEF TypeOK, Locals
  <2> QED
    BY <2>2, <2>3 DEF Quiet
<1>8. ASSUME NEW r, NEW W, Become(w, r, W)
      PROVE  loc'[w] = r
  BY <1>8 DEF Become
<1>9. CASE StopMonitoring(w)
  <2>1. pc[w] = "stop" /\ call'[w] = call[w] /\ call[w].kind \in Kinds
    BY <1>9, CallTypes DEF StopMonitoring, AloneOf, ThreadOf
  <2>2. CASE call[w].kind = "script"
    <3>1. \E r \in Unlink(w) : Become(w, r, Others(w, {Id(w)}))
      BY <1>9, <2>2 DEF StopMonitoring
    <3>2. loc'[w].seen = loc[w].seen
      BY <1>1, <1>8, <3>1 DEF Unlink, Locals
    <3> QED
      BY <2>1, <2>2, <3>2 DEF Quiet
  <2>3. CASE call[w].kind = "bundle"
    <3>1. Become(w, loc[w], Others(w, {Id(w)})) /\ Goto(w, "remove")
      BY <1>9, <2>3 DEF StopMonitoring
    <3>2. loc'[w] = loc[w] /\ pc'[w] = "remove"
      BY <1>8, <3>1 DEF Goto, TypeOK
    <3> QED
      BY <2>1, <3>2 DEF Quiet
  <2>4. CASE call[w].kind = "data"
    <3>1. loc' = loc
      BY <1>9, <2>4 DEF StopMonitoring
    <3> QED
      BY <2>1, <2>4, <3>1 DEF Quiet
  <2> QED
    BY <2>1, <2>2, <2>3, <2>4 DEF Kinds
<1>10. CASE Cleanup(w)
  <2>1. call'[w] = call[w] /\ loc'[w] = loc[w] /\ call[w].kind = "script"
    BY <1>8, <1>10 DEF Cleanup, AloneOf, ThreadOf
  <2> QED
    BY <2>1 DEF Quiet
<1>11. CASE RemoveDir(w)
  <2>1. pc[w] = "remove" /\ pc'[w] = "done" /\ call'[w] = call[w]
    BY <1>11 DEF RemoveDir, Goto, TypeOK
  <2>2. \/ loc'[w] = [loc[w] EXCEPT !.temp = "none"]
        \/ loc'[w] = [loc[w] EXCEPT !.mishap = TRUE, !.ok = FALSE]
    BY <1>11 DEF RemoveDir, TypeOK
  <2>3. /\ loc'[w].ran = loc[w].ran /\ loc'[w].seen = loc[w].seen
        /\ loc'[w].ok => loc[w].ok
    <3>1. loc[w] \in Locals
      BY DEF TypeOK
    <3>2. CASE loc'[w] = [loc[w] EXCEPT !.temp = "none"]
      BY <3>1, <3>2 DEF Locals
    <3>3. CASE loc'[w] = [loc[w] EXCEPT !.mishap = TRUE, !.ok = FALSE]
      BY <3>1, <3>3 DEF Locals
    <3> QED
      BY <2>2, <3>2, <3>3
  <2>4. ~ loc[w].ran => ~ loc[w].ok
    BY DEF AloneOf, ThreadOf
  <2>5. CASE call[w].kind = "bundle" /\ loc[w].ran
    BY <2>1, <2>3, <2>5 DEF Finishes
  <2>6. CASE call[w].kind = "bundle" /\ ~ loc[w].ran
    BY <2>1, <2>3, <2>4, <2>6 DEF Refuses
  <2>7. CASE call[w].kind # "bundle"
    BY <2>1, <2>3, <2>7 DEF Quiet
  <2> QED
    BY <2>5, <2>6, <2>7
<1>12. CASE Return(w)
  <2>1. pc[w] = "done" /\ pc'[w] = "idle" /\ call'[w] = NoCall /\ loc'[w].seen = Absent
    BY <1>12 DEF Return, Goto, TypeOK, Fresh
  <2>2. call'[w].kind # "bundle"
    BY <2>1 DEF NoCall
  <2>3. call[w].kind # "bundle" => loc[w].seen = Absent
    BY DEF AloneOf, ThreadOf
  <2>4. CASE call[w].kind = "bundle"
    BY <2>1, <2>2, <2>4 DEF Forgets
  <2>5. CASE call[w].kind # "bundle"
    BY <2>1, <2>2, <2>3, <2>5 DEF Quiet
  <2> QED
    BY <2>4, <2>5
<1> QED
  BY <1>2, <1>3, <1>4, <1>5, <1>6, <1>7, <1>9, <1>10, <1>11, <1>12 DEF Moves, Step, Ends

\* A bystander's part of the contract stays as it is.
LEMMA BystanderQuiet ==
    ASSUME TypeOK, NEW v \in Workers, Bystander(v)
    PROVE  Quiet(v)
  BY BystanderFields DEF Quiet, PhaseOf, GivenOf, OkOf

\* Seen from the request handler, execute_bundle runs with the dataset it was given
\* or not at all, ends once, and succeeds only if it ran: the service, whatever
\* else it executes and whoever terminates it, implements ExecutionContract.
THEOREM ImplementsExecutionContract == Spec => ContractKept
<1> DEFINE Phases == [w \in Workers |-> PhaseOf(w)]
           Givens == [w \in Workers |-> GivenOf(w)]
           Seen   == [w \in Workers |-> loc[w].seen]
           Oks    == [w \in Workers |-> OkOf(w)]
<1> USE DEF PhaseOf, GivenOf, OkOf
<1>1. Init => Contract!ContractInit
  <2> SUFFICES ASSUME Init
               PROVE  Contract!ContractInit
    OBVIOUS
  <2>1. NoCall.kind # "bundle" /\ Fresh.seen = Absent
    BY DEF NoCall, Fresh
  <2> QED
    BY <2>1 DEF Init, Contract!ContractInit
<1>2. TypeOK /\ ExecuteInv /\ [Next]_vars => [Contract!ContractNext]_Contract!contractVars
  <2> SUFFICES ASSUME TypeOK, ExecuteInv, [Next]_vars
               PROVE  [Contract!ContractNext]_Contract!contractVars
    OBVIOUS
  <2>1. \A w \in Workers : AloneOf(w)
    BY DEF ExecuteInv
  <2>2. ASSUME \A v \in Workers : Quiet(v)
        PROVE  UNCHANGED Contract!contractVars
    <3>1. Phases' = Phases /\ Givens' = Givens /\ Seen' = Seen /\ Oks' = Oks
      BY <2>2 DEF Quiet
    <3> QED
      BY <3>1 DEF Contract!contractVars
  <2>3. ASSUME NEW w \in Workers, Moves(w)
        PROVE  [Contract!ContractNext]_Contract!contractVars
    <3>1. AloneOf(w)
      BY <2>1
    <3>2. \A v \in Workers : v # w => Quiet(v)
      BY <2>3, <3>1, OthersStandBy, BystanderQuiet DEF AloneOf
    <3>3. CASE Quiet(w)
      BY <2>2, <3>2, <3>3
    <3>4. CASE Asks(w)
      <4>1. PICK d \in Datasets \cup {Absent} : d = GivenOf(w)'
        BY <3>4 DEF Asks
      <4>2. /\ Phases' = [Phases EXCEPT ![w] = "asked"]
            /\ Givens' = [Givens EXCEPT ![w] = d]
            /\ Seen' = Seen /\ Oks' = Oks
        BY <3>2, <3>4, <4>1 DEF Quiet, Asks
      <4>3. Contract!Ask(w, d)
        BY <3>4, <4>2 DEF Contract!Ask, Asks
      <4> QED
        BY <4>1, <4>3 DEF Contract!ContractNext
    <3>5. CASE Starts(w)
      <4>1. /\ Phases' = [Phases EXCEPT ![w] = "running"]
            /\ Seen' = [Seen EXCEPT ![w] = Givens[w]]
            /\ Givens' = Givens /\ Oks' = Oks
        BY <3>2, <3>5 DEF Quiet, Starts
      <4>2. Contract!Start(w)
        BY <3>5, <4>1 DEF Contract!Start, Starts
      <4> QED
        BY <4>2 DEF Contract!ContractNext
    <3>6. CASE Refuses(w)
      <4>1. /\ Phases' = [Phases EXCEPT ![w] = "over"]
            /\ Givens' = Givens /\ Seen' = Seen /\ Oks' = Oks
        BY <3>2, <3>6 DEF Quiet, Refuses
      <4>2. Contract!Refuse(w)
        BY <3>6, <4>1 DEF Contract!Refuse, Refuses
      <4> QED
        BY <4>2 DEF Contract!ContractNext
    <3>7. CASE Finishes(w)
      <4>1. /\ Phases' = [Phases EXCEPT ![w] = "over"]
            /\ Oks' = [Oks EXCEPT ![w] = OkOf(w)']
            /\ Givens' = Givens /\ Seen' = Seen
        BY <3>2, <3>7 DEF Quiet, Finishes
      <4>2. OkOf(w)' \in BOOLEAN
        OBVIOUS
      <4>3. Contract!Finish(w)
        BY <3>7, <4>1, <4>2 DEF Contract!Finish, Finishes
      <4> QED
        BY <4>3 DEF Contract!ContractNext
    <3>8. CASE Forgets(w)
      <4>1. /\ Phases' = [Phases EXCEPT ![w] = "idle"]
            /\ Givens' = [Givens EXCEPT ![w] = Absent]
            /\ Seen' = [Seen EXCEPT ![w] = Absent]
            /\ Oks' = [Oks EXCEPT ![w] = FALSE]
        BY <3>2, <3>8 DEF Quiet, Forgets
      <4>2. Contract!Forget(w)
        BY <3>8, <4>1 DEF Contract!Forget, Forgets
      <4> QED
        BY <4>2 DEF Contract!ContractNext
    <3> QED
      BY <2>3, <3>1, <3>3, <3>4, <3>5, <3>6, <3>7, <3>8, ContractSteps
  <2>4. ASSUME NEW i \in Ids, TerminateExecution(i)
        PROVE  UNCHANGED Contract!contractVars
    BY <2>2, <2>4, TerminateDisturbs, BystanderQuiet
  <2>5. CASE Tick \/ UNCHANGED vars
    <3>1. \A v \in Workers : Quiet(v)
      BY <2>5 DEF Tick, vars, Quiet
    <3> QED
      BY <2>2, <3>1
  <2> QED
    BY <2>3, <2>4, <2>5 DEF Next, Moves
<1> QED
  BY <1>1, <1>2, ExecuteInvariant, PTL DEF Spec, ContractKept, Contract!ContractSpec
=============================================================================
