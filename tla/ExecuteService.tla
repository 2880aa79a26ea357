--------------------------- MODULE ExecuteService ---------------------------
(***************************************************************************)
(* ExecuteServiceImpl (implementations/execute_service_impl.py): the three *)
(* ways to execute a script, their temporary files, and the registry       *)
(* _active_executions that all connection threads share under one lock.    *)
(* Requests reach execute_bundle; execute_script, execute_with_data and    *)
(* terminate_execution are the rest of the service's interface.            *)
(*                                                                         *)
(* A step is one critical section of _executions_lock, the call of         *)
(* subprocess.run or of collect_output_files, or a stretch of code in      *)
(* between, which works in a temporary directory of its own.  A file's     *)
(* contents are the facts the code tests.  An execution id is the kind of  *)
(* the call, its session and                                               *)
(* the second it began in, as in f"bundle_{session_id}_{int(time.time())}". *)
(***************************************************************************)
EXTENDS Integers, FiniteSets, FiniteSetsExt

CONSTANTS
    Workers,            \* threads
    Sessions,           \* session ids
    Calls,              \* the calls they can make
    Datasets,           \* decrypted CSV files with at least one byte
    ScriptLike,         \* those that validate_script accepts, as "1,2" is Python too
    EmptyBytes,         \* b""
    Absent,             \* None, and "" for a path
    Outside,            \* what script_path can name outside the directory: for each
                        \* path that leads to a file there, the file's contents
    MAX_ZIP_ENTRIES,
    MAX_ZIP_TOTAL_SIZE,
    MaxCalls,           \* bound: calls made
    MaxClock            \* bound: seconds that pass

-----------------------------------------------------------------------------
(* Bundles, scripts and calls.                                             *)

\* The names _find_script looks for, and any other .py file.
Preferred == <<"main.py", "script.py", "run.py">>
OtherScripts == {"a.py", "b.py"}
ScriptNames == {"main.py", "script.py", "run.py"} \cup OtherScripts

\* Other names that matter, as files of the bundle, and a name that leads out of
\* the directory.
Nested == {"generated/data.csv", "generated/a.py"}
Names == ScriptNames \cup Nested \cup {"generated", "outputs", "../x"}

\* A source text: accepted by validate_script, accepted and never ending by
\* itself, with a forbidden call, or no Python; or a directory, or other data.
Bodies == {"clean", "endless", "forbidden", "unparsable", "dir", "dummy"}

Bundles == [valid : BOOLEAN, entries : SUBSET [name : Names, body : Bodies, size : Nat]]

Kinds == {"script", "bundle", "data"}

ASSUME ExecuteAssumption ==
    /\ MAX_ZIP_ENTRIES \in Nat /\ MAX_ZIP_TOTAL_SIZE \in Nat
    /\ MaxCalls \in Nat /\ MaxClock \in Nat
    /\ Absent \notin Datasets /\ EmptyBytes \notin Datasets \cup {Absent}
    /\ \A d \in Datasets : d \notin Bodies
    /\ ScriptLike \subseteq Datasets
    /\ Absent \notin Names \cup DOMAIN Outside
    /\ \A n \in DOMAIN Outside : Outside[n] \in Bodies /\ n \notin Names \ {"../x"}
    /\ \A c \in Calls :
          /\ c.kind \in Kinds /\ c.sid \in Sessions
          /\ c.kind = "bundle" =>
                /\ c.csv \in Datasets \cup {EmptyBytes, Absent}
                /\ c.path \in Names \cup DOMAIN Outside \cup {Absent}
                /\ c.bundle.valid \in BOOLEAN
                /\ IsFiniteSet(c.bundle.entries)
                /\ \A e, f \in c.bundle.entries : e.name = f.name => e = f
                /\ \A e \in c.bundle.entries : /\ e.name \in Names
                                               /\ e.body \in Bodies
                                               /\ e.size \in Nat
          /\ c.kind # "bundle" => c.source \in Bodies

Ids == [kind : {"script", "bundle"}, sid : Sessions, second : 0 .. MaxClock]

\* validate_script
ValidateScript(body) == body \in {"clean", "endless"} \cup ScriptLike

\* The uncompressed size of a bundle.
TotalSize(b) == MapThenSumSet(LAMBDA e : e.size, b.entries)

\* _safe_extract_zip returns an error.
ExtractionError(b) ==
    \/ ~ b.valid
    \/ Cardinality(b.entries) > MAX_ZIP_ENTRIES
    \/ TotalSize(b) > MAX_ZIP_TOTAL_SIZE
    \/ \E e \in b.entries : e.name = "../x"

Extracted(b) == [n \in {e.name : e \in b.entries} |->
                    (CHOOSE e \in b.entries : e.name = n).body]

\* if csv_data
Truthy(v) == v \notin {Absent, EmptyBytes}

WithFile(tree, name, body) ==
    [n \in DOMAIN tree \cup {name} |-> IF n = name THEN body ELSE tree[n]]

\* Mutant: the CSV file is written before the bundle is extracted.
TreeInjectedFirst(c) ==
    IF Truthy(c.csv) /\ "generated/data.csv" \notin DOMAIN Extracted(c.bundle)
    THEN WithFile(Extracted(c.bundle), "generated/data.csv", c.csv)
    ELSE Extracted(c.bundle)

\* The directory the script runs in: the bundle, with the CSV file in the place
\* of generated/data.csv.
Tree(c) == IF Truthy(c.csv)
           THEN WithFile(Extracted(c.bundle), "generated/data.csv", c.csv)
           ELSE Extracted(c.bundle)

\* os.makedirs or open raises: a file is in the place of a directory, or the
\* other way round.
Blocked(c) ==
    LET tree == Extracted(c.bundle)
        IsFile(n) == n \in DOMAIN tree /\ tree[n] # "dir" IN
    \/ IsFile("outputs")
    \/ IsFile("generated") /\ (Truthy(c.csv) \/ Nested \cap DOMAIN tree # {})
    \/ Truthy(c.csv) /\ "generated/data.csv" \in DOMAIN tree
                     /\ tree["generated/data.csv"] = "dir"

\* Mutant: any .py file will do.
FindScriptAny(tree, path) == ScriptNames \cap DOMAIN tree

\* _find_script: the scripts it may return, several when os.listdir decides.  A path
\* is joined to the directory and only has to exist.  (The request handler passes none.)
FindScript(tree, path) ==
    IF path # Absent THEN {path} \cap (DOMAIN tree \cup DOMAIN Outside)
    ELSE LET present == {i \in DOMAIN Preferred : Preferred[i] \in DOMAIN tree} IN
         IF present # {} THEN {Preferred[Min(present)]}
         ELSE OtherScripts \cap DOMAIN tree

\* open(target_script).read()
Text(tree, n) == IF n \in DOMAIN tree THEN tree[n] ELSE Outside[n]

\* The scripts execute_bundle may come to run for call c.
Runnable(c) ==
    IF ExtractionError(c.bundle) \/ Blocked(c) THEN {}
    ELSE {n \in FindScript(Tree(c), c.path) : ValidateScript(Text(Tree(c), n))}

-----------------------------------------------------------------------------
VARIABLES
    clock,   \* int(time.time())
    active,  \* _active_executions: the status of every execution id
    begun,   \* calls begun
    pc,      \* per thread, the step it takes next
    call,    \* per thread, its call
    loc      \* per thread, its local variables and ghosts

vars == <<clock, active, begun, pc, call, loc>>

Statuses == {"absent", "running", "completed", "terminated"}

Labels == {"idle", "prepare", "start", "write", "spawn", "running", "collect",
           "blocked", "stop", "cleanup", "remove", "done"}

\* temp is what lies on disk, source what the process runs.  The others are ghosts:
\* ran, the process was started; seen, what it finds in generated/data.csv when a
\* dataset was given; mishap, a file could not be written or removed;
\* disturbed, somebody terminated this execution, or another one of its session
\* ended.
Locals == [second    : 0 .. MaxClock,
           temp      : {"none", "file", "dir"},
           source    : Bodies \cup Datasets \cup {Absent},
           target    : Names \cup DOMAIN Outside \cup {Absent},
           seen      : Datasets \cup Bodies \cup {Absent},
           ok        : BOOLEAN,
           ran       : BOOLEAN,
           mishap    : BOOLEAN,
           disturbed : BOOLEAN]

Fresh == [second |-> 0, temp |-> "none", source |-> Absent, target |-> Absent,
          seen |-> Absent, ok |-> FALSE, ran |-> FALSE, mishap |-> FALSE,
          disturbed |-> FALSE]

NoCall == [kind |-> "none"]

Init ==
    /\ clock = 0
    /\ active = [i \in Ids |-> "absent"]
    /\ begun = 0
    /\ pc = [w \in Workers |-> "idle"]
    /\ call = [w \in Workers |-> NoCall]
    /\ loc = [w \in Workers |-> Fresh]

Goto(w, label) == pc' = [pc EXCEPT ![w] = label]

Id(w) == [kind |-> call[w].kind, sid |-> call[w].sid, second |-> loc[w].second]

\* The threads whose entry is in the registry, or was and will be dealt with.
Monitored == {"write", "spawn", "running", "collect", "blocked", "stop"}
Owned == Monitored \cup {"cleanup"}

Owns(w, i) ==
    /\ call[w].kind \in {"script", "bundle"}
    /\ pc[w] \in Owned
    /\ Id(w) = i

\* Thread w's local variables become r; ghost: the executions of the threads in W
\* are disturbed.
Become(w, r, W) ==
    loc' = [v \in Workers |->
              IF v = w THEN r
              ELSE IF v \in W THEN [loc[v] EXCEPT !.disturbed = TRUE] ELSE loc[v]]

-----------------------------------------------------------------------------
(* The three entry points, up to the run.                                  *)

Begin(w, c) ==
    /\ pc[w] = "idle"
    /\ begun < MaxCalls
    /\ begun' = begun + 1
    /\ call' = [call EXCEPT ![w] = c]
    /\ loc' = [loc EXCEPT ![w] = [Fresh EXCEPT !.second = clock]]
    /\ Goto(w, "prepare")
    /\ UNCHANGED <<clock, active>>

\* execute_script: validate_script.
PrepareScript(w) ==
    /\ pc[w] = "prepare" /\ call[w].kind = "script"
    /\ IF ValidateScript(call[w].source)
       THEN /\ Goto(w, "start")
            /\ loc' = [loc EXCEPT ![w].source = call[w].source]
       ELSE /\ Goto(w, "cleanup")
            /\ UNCHANGED loc
    /\ UNCHANGED <<clock, active, begun, call>>

\* execute_bundle: extraction, injection, search, validation and the directories
\* for the script.  Any of these may also meet a file system that is full.
PrepareBundle(w) ==
    /\ pc[w] = "prepare" /\ call[w].kind = "bundle"
    /\ \/ \E n \in Runnable(call[w]) :
             /\ Goto(w, "start")
             /\ loc' = [loc EXCEPT ![w] =
                          [loc[w] EXCEPT !.temp = "dir", !.target = n,
                                         !.source = Text(Tree(call[w]), n)]]
       \/ /\ Goto(w, "remove")
          /\ loc' = [loc EXCEPT ![w].temp = "dir"]
       \/ /\ Goto(w, "done")
          /\ UNCHANGED loc
    /\ UNCHANGED <<clock, active, begun, call>>

\* execute_with_data: an output format that is not supported is refused; data
\* files that do not exist are left out; the script is not validated.
PrepareData(w) ==
    /\ pc[w] = "prepare" /\ call[w].kind = "data"
    /\ \/ /\ Goto(w, "spawn")
          /\ loc' = [loc EXCEPT ![w] = [loc[w] EXCEPT !.temp = "dir",
                                                      !.source = call[w].source]]
       \/ /\ Goto(w, "remove")
          /\ loc' = [loc EXCEPT ![w].temp = "dir"]
       \/ /\ Goto(w, "done")
          /\ UNCHANGED loc
    /\ UNCHANGED <<clock, active, begun, call>>

\* _start_execution_monitoring, which replaces an entry of the same id.
StartMonitoring(w) ==
    /\ pc[w] = "start"
    /\ active' = [active EXCEPT ![Id(w)] = "running"]
    /\ Goto(w, IF call[w].kind = "script" THEN "write" ELSE "spawn")
    /\ UNCHANGED <<clock, begun, call, loc>>

\* execute_script: NamedTemporaryFile(delete=False).  If the write raises, the
\* file stays, and neither the unlink nor _stop_execution_monitoring is reached.
WriteScript(w) ==
    /\ pc[w] = "write"
    /\ \/ /\ Goto(w, "spawn")
          /\ loc' = [loc EXCEPT ![w].temp = "file"]
       \/ /\ Goto(w, "cleanup")
          /\ \E left \in {"none", "file"} :
                loc' = [loc EXCEPT ![w] = [loc[w] EXCEPT !.temp = left, !.mishap = TRUE]]
    /\ UNCHANGED <<clock, active, begun, call>>

\* subprocess.run starts the process, or chown, fork or exec fails.
Spawn(w) ==
    /\ pc[w] = "spawn"
    /\ \/ /\ Goto(w, "running")
          /\ loc' = [loc EXCEPT ![w] =
                       [loc[w] EXCEPT
                          !.ran = TRUE,
                          !.seen = IF call[w].kind = "bundle" /\ Truthy(call[w].csv)
                                   THEN Tree(call[w])["generated/data.csv"] ELSE Absent]]
       \/ /\ Goto(w, "stop")
          /\ UNCHANGED loc
    /\ UNCHANGED <<clock, active, begun, call>>

-----------------------------------------------------------------------------
(* The end of the run and what follows.                                    *)

\* subprocess.run returns exit code 0, and for execute_script an output within the
\* limit.  The files a bundle's script wrote are still to be collected.
ExitsWell(w) ==
    /\ loc[w].source # "endless"
    /\ IF call[w].kind = "bundle"
       THEN Goto(w, "collect") /\ UNCHANGED loc
       ELSE Goto(w, "stop") /\ loc' = [loc EXCEPT ![w].ok = TRUE]

\* Mutant: subprocess.run without a timeout.
RunEndsByItself(w) ==
    /\ pc[w] = "running"
    /\ \/ ExitsWell(w)
       \/ loc[w].source # "endless" /\ Goto(w, "stop") /\ UNCHANGED loc
    /\ UNCHANGED <<clock, active, begun, call>>

\* The process exits and its pipes are closed, or the timeout kills it.  All but
\* ExitsWell is a failure.
RunEnds(w) ==
    /\ pc[w] = "running"
    /\ \/ ExitsWell(w)
       \/ Goto(w, "stop") /\ UNCHANGED loc
    /\ UNCHANGED <<clock, active, begun, call>>

\* collect_output_files accepts the output files or rejects them; or a process of the
\* script holds it, for no timeout covers it: by a FIFO it opens, or by ever new
\* directories that it walks.
Collect(w) ==
    /\ pc[w] = "collect"
    /\ \/ /\ \E success \in BOOLEAN : loc' = [loc EXCEPT ![w].ok = success]
          /\ Goto(w, "stop")
       \/ /\ Goto(w, "blocked")
          /\ UNCHANGED loc
    /\ UNCHANGED <<clock, active, begun, call>>

\* The process opens the FIFO or makes no more directories, and the collection ends.
Released(w) ==
    /\ pc[w] = "blocked"
    /\ \E success \in BOOLEAN : loc' = [loc EXCEPT ![w].ok = success]
    /\ Goto(w, "stop")
    /\ UNCHANGED <<clock, active, begun, call>>

\* Ghost: the other executions whose entry has one of the ids in I.
Others(w, I) == {v \in Workers \ {w} : \E i \in I : Owns(v, i)}

\* The unlink of execute_script's finally clause; an OSError is only logged.
Unlink(w) == {[loc[w] EXCEPT !.temp = "none"], [loc[w] EXCEPT !.mishap = TRUE]}

\* Mutant: the entry of a run that failed is not completed.
CompletedOnSuccess(w) ==
    active' = [active EXCEPT ![Id(w)] = IF loc[w].ok THEN "completed" ELSE @]

\* _stop_execution_monitoring: an entry that is still there is completed, whatever
\* its status was.
Completed(w) ==
    active' = [active EXCEPT ![Id(w)] = IF @ = "absent" THEN @ ELSE "completed"]

\* The finally clauses of the run.
StopMonitoring(w) ==
    /\ pc[w] = "stop"
    /\ CASE call[w].kind = "script" ->
              /\ \E r \in Unlink(w) : Become(w, r, Others(w, {Id(w)}))
              /\ Completed(w)
              /\ Goto(w, "cleanup")
         [] call[w].kind = "bundle" ->
              /\ Become(w, loc[w], Others(w, {Id(w)}))
              /\ Completed(w)
              /\ Goto(w, "remove")
         [] call[w].kind = "data" ->
              /\ Goto(w, "remove")
              /\ UNCHANGED <<active, loc>>
    /\ UNCHANGED <<clock, begun, call>>

\* Mutant: cleanup_execution_environment forgets to compare the sessions.
RemovedAny(sid) == {i \in Ids : active[i] # "absent"}

\* executions_to_remove
Removed(sid) == {i \in Ids : i.sid = sid /\ active[i] # "absent"}

\* cleanup_execution_environment, at the end of execute_script however it ends: it
\* deletes every entry of the session, those of other executions included.
Cleanup(w) ==
    /\ pc[w] = "cleanup"
    /\ active' = [i \in Ids |-> IF i \in Removed(call[w].sid) THEN "absent" ELSE active[i]]
    /\ Become(w, loc[w], Others(w, {i \in Ids : i.sid = call[w].sid}))
    /\ Goto(w, "done")
    /\ UNCHANGED <<clock, begun, call>>

\* Mutant: ignore_cleanup_errors=True.
RemoveDirIgnoringErrors(w) ==
    /\ pc[w] = "remove"
    /\ \/ loc' = [loc EXCEPT ![w].temp = "none"]
       \/ loc' = [loc EXCEPT ![w].mishap = TRUE]
    /\ Goto(w, "done")
    /\ UNCHANGED <<clock, active, begun, call>>

\* TemporaryDirectory.__exit__: if rmtree raises, because of a process that still
\* writes there or otherwise, the result of the run is replaced by a failure.
RemoveDir(w) ==
    /\ pc[w] = "remove"
    /\ \/ loc' = [loc EXCEPT ![w].temp = "none"]
       \/ loc' = [loc EXCEPT ![w] = [loc[w] EXCEPT !.mishap = TRUE, !.ok = FALSE]]
    /\ Goto(w, "done")
    /\ UNCHANGED <<clock, active, begun, call>>

Return(w) ==
    /\ pc[w] = "done"
    /\ Goto(w, "idle")
    /\ call' = [call EXCEPT ![w] = NoCall]
    /\ loc' = [loc EXCEPT ![w] = Fresh]
    /\ UNCHANGED <<clock, active, begun>>

\* terminate_execution: sets a status and stops no process.
TerminateExecution(i) ==
    /\ active[i] # "absent"
    /\ active' = [active EXCEPT ![i] = "terminated"]
    /\ loc' = [v \in Workers |->
                 IF Owns(v, i) THEN [loc[v] EXCEPT !.disturbed = TRUE] ELSE loc[v]]
    /\ UNCHANGED <<clock, begun, pc, call>>

Tick ==
    /\ clock < MaxClock
    /\ clock' = clock + 1
    /\ UNCHANGED <<active, begun, pc, call, loc>>

Step(w) ==
    \/ PrepareScript(w) \/ PrepareBundle(w) \/ PrepareData(w)
    \/ StartMonitoring(w) \/ WriteScript(w) \/ Spawn(w)
    \/ RunEnds(w) \/ Collect(w) \/ Released(w)
    \/ StopMonitoring(w) \/ Cleanup(w) \/ RemoveDir(w) \/ Return(w)

Next ==
    \/ \E w \in Workers : Step(w) \/ \E c \in Calls : Begin(w, c)
    \/ \E i \in Ids : TerminateExecution(i)
    \/ Tick

Spec == Init /\ [][Next]_vars

\* A thread that has begun a call goes on with it; a run ends because of its timeout.
\* A surviving process is not obliged to let the collection go.
FairSpec == Spec /\ \A w \in Workers : WF_vars(pc[w] # "blocked" /\ Step(w))

-----------------------------------------------------------------------------
(* Properties.                                                             *)

TypeOK ==
    /\ clock \in 0 .. MaxClock
    /\ active \in [Ids -> Statuses]
    /\ begun \in 0 .. MaxCalls
    /\ pc \in [Workers -> Labels]
    /\ call \in [Workers -> Calls \cup {NoCall}]
    /\ loc \in [Workers -> Locals]

\* An entry of _active_executions that no thread is busy with is one of a bundle, and
\* monitor_execution does not report it as running: no failure, timeout or refusal,
\* and no other execution of the same session or id, leaves a status running or an
\* entry of execute_script behind.
OnlyEndedBundlesRemain ==
    \A i \in Ids : active[i] # "absent" /\ (\A w \in Workers : ~ Owns(w, i))
                      => i.kind = "bundle" /\ active[i] # "running"

\* While a script runs its entry says so, unless somebody terminated it or another
\* execution of the same session, in execute_script, or of the same second ended.
StatusHonest ==
    \A w \in Workers :
        /\ pc[w] \in Monitored
        /\ call[w].kind # "data"
        /\ ~ loc[w].disturbed
        => active[Id(w)] = "running"

\* When a call returns, the decrypted bundle, dataset or script it put on disk is
\* gone, unless the file system failed, and then a bundle's run is no success.
PlaintextRemoved ==
    \A w \in Workers :
        pc[w] = "done" /\ loc[w].temp # "none"
        => loc[w].mishap /\ (call[w].kind # "script" => ~ loc[w].ok)

\* What a bundle's process runs has been validated, as it lies in the directory after
\* the injection, and the bundle is within both its limits.  Without a path it is an
\* entry of the bundle: main.py, script.py or run.py in this order of preference, and
\* another .py file only if none of them is there.  With a path it is the file of that
\* path, be it the injected CSV file, and only a path that leads out of the directory
\* runs anything that is not in it.
ScriptChecked ==
    \A w \in Workers : pc[w] = "running" /\ call[w].kind = "bundle" =>
        LET c == call[w]
            run == <<loc[w].target, loc[w].source>>
            names == {e.name : e \in c.bundle.entries}
            files == {<<e.name, e.body>> : e \in c.bundle.entries}
            injected == Truthy(c.csv) /\ c.path = "generated/data.csv" IN
        /\ ValidateScript(loc[w].source)
        /\ Cardinality(c.bundle.entries) =< MAX_ZIP_ENTRIES
        /\ ~ (TotalSize(c.bundle) > MAX_ZIP_TOTAL_SIZE)
        /\ c.path = Absent =>
             /\ run \in files
             /\ run[1] # "main.py" => "main.py" \notin names
             /\ run[1] \notin {"main.py", "script.py"} => "script.py" \notin names
             /\ run[1] \in OtherScripts => "run.py" \notin names
        /\ c.path # Absent =>
             /\ run[1] = c.path
             /\ injected => run[2] = c.csv
             /\ ~ injected => run \in files \/ c.path \in DOMAIN Outside

\* Refinement: seen from the request handler, a call of execute_bundle runs with the
\* dataset it was given or not at all, ends once, and succeeds only if it ran.
Contract == INSTANCE ExecutionContract WITH
    Executors  <- Workers,
    Injectable <- Datasets,
    Nothing    <- Absent,
    phase <- [w \in Workers |->
                IF call[w].kind # "bundle" THEN "idle"
                ELSE IF pc[w] = "done" THEN "over"
                ELSE IF loc[w].ran THEN "running" ELSE "asked"],
    given <- [w \in Workers |->
                IF call[w].kind = "bundle" /\ Truthy(call[w].csv)
                THEN call[w].csv ELSE Absent],
    injected <- [w \in Workers |-> loc[w].seen],
    ok <- [w \in Workers |-> call[w].kind = "bundle" /\ pc[w] = "done" /\ loc[w].ok]

ContractKept == Contract!ContractSpec

\* Every call returns, for a run is ended by its timeout, unless a process the script
\* left behind holds collect_output_files for ever, by a FIFO or by ever new directories.
ExecutionsEnd ==
    \A w \in Workers :
        pc[w] = "prepare" ~> (pc[w] = "idle" \/ [](pc[w] = "blocked"))
=============================================================================
