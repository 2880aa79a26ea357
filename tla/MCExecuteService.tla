-------------------------- MODULE MCExecuteService --------------------------
EXTENDS ExecuteService

CONSTANTS w1, w2, d1, d2

\* Limits scaled down: three entries, four units of size.
File(name, body) == [name |-> name, body |-> body, size |-> 1]

Zip(entries) == [valid |-> TRUE, entries |-> entries]

Bundle(sid, entries, path, csv) ==
    [kind |-> "bundle", sid |-> sid, bundle |-> Zip(entries), path |-> path, csv |-> csv]

\* One path that leads out of the directory to a file.
MCOutside == [n \in {"../x"} |-> "clean"]

\* Calls that come to run something, and calls that are refused, each for a reason
\* of its own.
MCCalls ==
    {[kind |-> "script", sid |-> "s1", source |-> "clean"],
     [kind |-> "data", sid |-> "s1", source |-> "forbidden"],
     Bundle("s1", {File("script.py", "clean"), File("run.py", "clean"),
                   File("generated/data.csv", "dummy")}, Absent, d1),
     Bundle("s2", {File("a.py", "endless"), File("b.py", "unparsable")}, Absent, EmptyBytes),
     Bundle("s1", {File("main.py", "forbidden"), File("generated/data.csv", "clean")},
            "generated/data.csv", d2),
     Bundle("s1", {File("main.py", "forbidden")}, "../x", Absent)}
  \cup
    {[kind |-> "script", sid |-> "s1", source |-> "forbidden"],
     Bundle("s1", {File("main.py", "forbidden"), File("script.py", "clean"),
                   File("a.py", "clean")}, Absent, Absent),
     Bundle("s1", {File("script.py", "forbidden"), File("run.py", "clean")}, Absent, Absent),
     Bundle("s1", {File("generated/data.csv", "clean")}, "generated/data.csv", d1),
     Bundle("s1", {File("main.py", "clean")}, "generated/a.py", Absent),
     Bundle("s1", {File("main.py", "clean"), File("outputs", "dummy")}, Absent, Absent),
     Bundle("s1", {File("main.py", "clean"), File("generated", "dummy")}, Absent, d1),
     Bundle("s1", {File("main.py", "clean"), File("../x", "dummy")}, Absent, Absent),
     Bundle("s1", {File("main.py", "clean"), File("a.py", "clean"), File("b.py", "clean"),
                   File("run.py", "clean")}, Absent, Absent),
     Bundle("s1", {[name |-> "main.py", body |-> "clean", size |-> 5]}, Absent, Absent),
     [Bundle("s1", {File("main.py", "clean")}, Absent, Absent) EXCEPT !.bundle.valid = FALSE]}
=============================================================================
