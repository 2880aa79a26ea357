---------------------------- MODULE OutputFiles ----------------------------
(***************************************************************************)
(* implementations/output_files.py: collect_output_files reads what a      *)
(* script left under EPSILON_OUTPUT_DIR.  subprocess.run waits for the     *)
(* script only: a process the script started may still be there, owns the  *)
(* directory (_as_script_user) and changes it between any two system calls *)
(* of the collection.                                                      *)
(*                                                                         *)
(* The directory is a fixed set of possible nodes, each an entry of its    *)
(* parent's directory; node 0 is the outputs directory itself.  A node's   *)
(* number is the rank of its name, so sorted(entries) is ascending order.  *)
(* When a directory is replaced, the entries below it remain those of the  *)
(* old one, which is what a file descriptor opened before still reaches.   *)
(*                                                                         *)
(* _walk bounds the number of files, but neither the number nor the depth  *)
(* of directories.  Directories of further names, made while it walks, are *)
(* therefore not among the nodes: any number may follow one another.       *)
(***************************************************************************)
EXTENDS Integers, FiniteSets, FiniteSetsExt

CONSTANTS
    Nodes,           \* ranks of the names that can exist under outputs
    Parent,          \* the directory each of them is an entry of
    BadNames,        \* the ones is_valid_output_file_name refuses
    Sizes,           \* file sizes
    max_files,       \* MAX_OUTPUT_FILES
    max_total_bytes, \* MAX_OUTPUT_FILES_MB, in bytes
    MaxChanges       \* bound: changes the surviving process makes to Nodes

Outputs == 0
AllNodes == Nodes \cup {Outputs}

NotRegular == [kind : {"absent", "dir", "link", "fifo"}, size : {0}]
Entries == NotRegular \cup [kind : {"regular"}, size : Sizes]

\* A collected file: its name, its size, and whether its bytes were reached
\* through a symbolic link.
Collected == [name : Nodes, size : Nat, foreign : BOOLEAN]

ASSUME OutputAssumption ==
    /\ Nodes \subseteq Nat \ {0} /\ IsFiniteSet(Nodes)
    /\ Parent \in [Nodes -> AllNodes]
    /\ \A n \in Nodes : Parent[n] < n
    /\ BadNames \subseteq Nodes
    /\ Sizes \subseteq Nat
    /\ max_files \in Nat /\ max_total_bytes \in Nat /\ MaxChanges \in Nat

VARIABLES
    tree,     \* what the file system holds
    changes,  \* changes made since the collection began
    pc,       \* where collect_output_files is, and how it ended
    stack,    \* _walk: directories still to list
    further,  \* a directory of a further name: made, or on _walk's stack
    listing,  \* _walk: entries of the current directory still to look at
    found,    \* _walk: the regular files
    total,    \* _walk: the sum of their sizes; later, the bytes read
    fd,       \* _open_nofollow: the node the descriptor is for
    foreign,  \* a symbolic link was followed on the way to it
    fd_size,  \* the size of the open file
    files     \* the result

vars == <<tree, changes, pc, stack, further, listing, found, total, fd,
          foreign, fd_size, files>>

\* Directory trees a script can leave: an entry needs a directory around it.
Trees == {t \in [AllNodes -> Entries] :
             \A n \in Nodes : t[Parent[n]].kind # "dir" => t[n].kind = "absent"}

Init ==
    /\ tree \in Trees
    /\ changes = 0
    /\ pc = "check"
    /\ stack = {} /\ listing = {} /\ found = {} /\ files = {}
    /\ total = 0 /\ fd_size = 0
    /\ fd = Outputs
    /\ foreign = FALSE
    /\ further = "none"

(***************************************************************************)
(* What a system call sees.                                                *)
(***************************************************************************)
Ancestors[n \in AllNodes] ==
    IF n = Outputs THEN {} ELSE Ancestors[Parent[n]] \cup {Parent[n]}

Children(d) == {n \in Nodes : Parent[n] = d}

PathOf(n) == Ancestors[n] \cup {n}

Kind(n) == tree[n].kind

\* The entries a lookup by path may find: links on the way are followed,
\* and what is behind them can be anything.
Lookup(n) ==
    IF \A a \in Ancestors[n] : Kind(a) = "dir" THEN {tree[n]}
    ELSE IF \E a \in Ancestors[n] : Kind(a) = "link" THEN Entries
    ELSE {[kind |-> "absent", size |-> 0]}

\* Mutants: links are followed, on the way and at its end.
OpenableFollowing == {"dir", "link"}
ReadableFollowing == {"regular", "link"}

\* What os.open accepts with O_DIRECTORY and O_NOFOLLOW.
Openable == {"dir"}

\* What is read: os.open with O_NOFOLLOW and then fstat let it pass.
Readable == {"regular"}

Reject == pc' = "rejected"

(***************************************************************************)
(* collect_output_files: the tests before the walk.                        *)
(***************************************************************************)
CheckDirectory ==
    /\ pc = "check"
    /\ pc' = CASE Kind(Outputs) = "absent" -> "done"
               [] Kind(Outputs) = "dir" -> "walk"
               [] OTHER -> "rejected"
    /\ stack' = {Outputs}
    /\ UNCHANGED <<tree, changes, further, listing, found, total, fd, foreign,
                   fd_size, files>>

(***************************************************************************)
(* _walk.  The stack is a set: the order of directories, like the order in *)
(* which scandir yields entries, is of no consequence.                     *)
(***************************************************************************)
\* os.scandir follows links, and what it lists behind one can be anything;
\* it raises OSError when a segment is missing or no directory.
ListDirectory(d) ==
    /\ pc = "walk" /\ listing = {}
    /\ d \in stack
    /\ stack' = stack \ {d}
    /\ \/ /\ \A a \in PathOf(d) : Kind(a) = "dir"
          /\ listing' = {n \in Children(d) : Kind(n) # "absent"}
          /\ UNCHANGED pc
       \/ /\ \E a \in PathOf(d) : Kind(a) = "link"
          /\ listing' \in SUBSET Children(d)
          /\ UNCHANGED pc
       \/ /\ \E a \in PathOf(d) : Kind(a) # "dir"
          /\ Reject
          /\ UNCHANGED listing
    /\ UNCHANGED <<tree, changes, further, found, total, fd, foreign, fd_size,
                   files>>

\* Mutant of Accepted: the last file the limit allows is refused.
AcceptedTooFew(n, e) ==
    /\ e.kind = "regular"
    /\ n \notin BadNames
    /\ Cardinality(found) + 1 < max_files

\* entry.stat and the tests on its result; a stat of an entry that is gone
\* raises OSError, which execute_bundle treats like a rule violation.
Accepted(n, e) ==
    /\ e.kind = "regular"
    /\ n \notin BadNames
    /\ Cardinality(found) < max_files

\* Mutant: a directory is listed again for every entry of it.
StatEntryRelists(n) ==
    /\ pc = "walk"
    /\ n \in listing
    /\ listing' = listing \ {n}
    /\ stack' = stack \cup {Parent[n]}
    /\ UNCHANGED <<tree, changes, pc, further, found, total, fd, foreign, fd_size,
                   files>>

StatEntry(n) ==
    /\ pc = "walk"
    /\ n \in listing
    /\ listing' = listing \ {n}
    /\ \E e \in Lookup(n) :
         \/ /\ e.kind = "dir"
            /\ stack' = stack \cup {n}
            /\ UNCHANGED <<pc, found, total>>
         \/ /\ Accepted(n, e)
            /\ found' = found \cup {n}
            /\ total' = total + e.size
            /\ UNCHANGED <<pc, stack>>
         \/ /\ e.kind # "dir" /\ ~Accepted(n, e)
            /\ Reject
            /\ UNCHANGED <<stack, found, total>>
    /\ UNCHANGED <<tree, changes, further, fd, foreign, fd_size, files>>

\* The scan that is going on comes to a directory of a further name, which
\* goes to the stack and is counted nowhere.
StatFurther ==
    /\ pc = "walk"
    /\ further = "made"
    /\ further' = "stacked"
    /\ UNCHANGED <<tree, changes, pc, stack, listing, found, total, fd, foreign,
                   fd_size, files>>

\* It is listed in its turn, or is gone by then.
ListFurther ==
    /\ pc = "walk" /\ listing = {}
    /\ further = "stacked"
    /\ further' = "none"
    /\ UNCHANGED pc \/ Reject
    /\ UNCHANGED <<tree, changes, stack, listing, found, total, fd, foreign,
                   fd_size, files>>

\* The sum of the sizes that stat returned is compared with the limit.  A
\* directory made where the scan has already been is not seen any more.
CheckTotal ==
    /\ pc = "walk" /\ listing = {} /\ stack = {} /\ further # "stacked"
    /\ IF total > max_total_bytes THEN Reject ELSE pc' = "next"
    /\ total' = 0
    /\ UNCHANGED <<tree, changes, stack, further, listing, found, fd, foreign,
                   fd_size, files>>

(***************************************************************************)
(* The files are opened and read in the order of their names.              *)
(***************************************************************************)
Current == Min(found)

NextFile ==
    /\ pc = "next"
    /\ IF found = {}
          THEN pc' = "done" /\ UNCHANGED <<fd, foreign>>
          ELSE /\ pc' = IF Kind(Outputs) \in Openable THEN "open" ELSE "rejected"
               /\ fd' = Outputs
               /\ foreign' = (Kind(Outputs) = "link")
    /\ UNCHANGED <<tree, changes, stack, further, listing, found, total, fd_size,
                   files>>

\* _open_nofollow: the next segment, relative to the directory that is open.
Segment == CHOOSE n \in PathOf(Current) \ {Outputs} : Parent[n] = fd

OpenDirectory ==
    /\ pc = "open" /\ Segment # Current
    /\ pc' = IF Kind(Segment) \in Openable THEN "open" ELSE "rejected"
    /\ fd' = Segment
    /\ foreign' = (foreign \/ Kind(Segment) = "link")
    /\ UNCHANGED <<tree, changes, stack, further, listing, found, total, fd_size,
                   files>>

\* The file itself.  The open of a FIFO waits for a writer; the one of a
\* directory succeeds and is refused by the fstat test.
OpenFile ==
    /\ pc = "open" /\ Segment = Current
    /\ pc' = CASE Kind(Current) \in Readable -> "read"
               [] Kind(Current) = "fifo" -> "blocked"
               [] OTHER -> "rejected"
    /\ fd' = Current
    /\ foreign' = (foreign \/ Kind(Current) = "link")
    /\ fd_size' = tree[Current].size
    /\ UNCHANGED <<tree, changes, stack, further, listing, found, total, files>>

\* f.read(max_total_bytes - total + 1), and the second test of the limit.
\* Mutants: f.read() without a limit, and no second test.
ReadWhole == fd_size

ReadLimit == max_total_bytes - total + 1

ReadFileUnchecked ==
    /\ pc = "read"
    /\ LET length == Min({fd_size, ReadLimit}) IN
       /\ total' = total + length
       /\ files' = files \cup {[name |-> Current, size |-> length,
                                foreign |-> foreign]}
       /\ found' = found \ {Current}
       /\ pc' = "next"
    /\ UNCHANGED <<tree, changes, stack, further, listing, fd, foreign, fd_size>>

ReadFile ==
    /\ pc = "read"
    /\ LET length == Min({fd_size, ReadLimit}) IN
       /\ total' = total + length
       /\ IF total' > max_total_bytes
             THEN Reject /\ UNCHANGED <<files, found>>
             ELSE /\ files' = files \cup {[name |-> Current, size |-> length,
                                           foreign |-> foreign]}
                  /\ found' = found \ {Current}
                  /\ pc' = "next"
    /\ UNCHANGED <<tree, changes, stack, further, listing, fd, foreign, fd_size>>

(***************************************************************************)
(* The surviving process: it replaces any entry, the outputs directory     *)
(* included, changes the length of the file that is being read, opens the  *)
(* FIFO the collection waits for, or makes directories under further names *)
(* without end, one at a time.                                             *)
(***************************************************************************)
Collecting == pc \in {"check", "walk", "next", "open", "read", "blocked"}

Replace(n, e) ==
    /\ Collecting /\ changes < MaxChanges
    /\ tree' = [tree EXCEPT ![n] = e]
    /\ changes' = changes + 1
    /\ UNCHANGED <<pc, stack, further, listing, found, total, fd, foreign, fd_size,
                   files>>

ResizeOpenFile(size) ==
    /\ pc = "read" /\ changes < MaxChanges
    /\ fd_size' = size
    /\ changes' = changes + 1
    /\ UNCHANGED <<tree, pc, stack, further, listing, found, total, fd, foreign,
                   files>>

OpenFifoForWriting ==
    /\ pc = "blocked" /\ changes < MaxChanges
    /\ Reject
    /\ changes' = changes + 1
    /\ UNCHANGED <<tree, stack, further, listing, found, total, fd, foreign,
                   fd_size, files>>

MakeDirectory ==
    /\ pc = "walk" /\ further = "none" /\ MaxChanges > 0
    /\ further' = "made"
    /\ changes' = IF changes = 0 THEN 1 ELSE changes
    /\ UNCHANGED <<tree, pc, stack, listing, found, total, fd, foreign, fd_size,
                   files>>

Survivor ==
    \/ \E n \in AllNodes, e \in Entries : Replace(n, e)
    \/ \E size \in Sizes : ResizeOpenFile(size)
    \/ OpenFifoForWriting
    \/ MakeDirectory

Collect ==
    \/ CheckDirectory
    \/ \E d \in AllNodes : ListDirectory(d)
    \/ \E n \in Nodes : StatEntry(n)
    \/ StatFurther \/ ListFurther
    \/ CheckTotal
    \/ NextFile \/ OpenDirectory \/ OpenFile \/ ReadFile

Next == Collect \/ Survivor

Spec == Init /\ [][Next]_vars

\* The collection is one thread that nothing but its own calls can stop.
FairSpec == Spec /\ WF_vars(Collect)

(***************************************************************************)
(* Properties                                                              *)
(***************************************************************************)
TypeOK ==
    /\ tree \in [AllNodes -> Entries]
    /\ changes \in 0 .. MaxChanges
    /\ pc \in {"check", "walk", "next", "open", "read", "blocked", "done",
               "rejected"}
    /\ stack \subseteq AllNodes /\ listing \subseteq Nodes /\ found \subseteq Nodes
    /\ further \in {"none", "made", "stacked"}
    /\ total \in Nat /\ fd_size \in Nat
    /\ fd \in AllNodes
    /\ foreign \in BOOLEAN
    /\ files \subseteq Collected

\* The bytes of a set of collected files, and of a set of nodes of a tree.
FileBytes(F) == MapThenSumSet(LAMBDA f : f.size, F)

NodeBytes(t, S) == MapThenSumSet(LAMBDA n : t[n].size, S)

\* A result never exceeds MAX_OUTPUT_FILES and MAX_OUTPUT_FILES_MB, also when
\* files grow, appear or change place after _walk has counted them.
ResultWithinLimits ==
    /\ Cardinality(files) <= max_files
    /\ FileBytes(files) <= max_total_bytes

\* The enclave never holds more than one byte above the limit, however long
\* a file has become when it is read.
MemoryBounded ==
    fd # Outputs => total <= max_total_bytes + 1

\* No byte of a result was read through a symbolic link: a directory or a
\* file that becomes a link between the walk and the open is refused.
NothingForeign ==
    \A f \in files : ~f.foreign

\* A directory that nobody touches is collected exactly or rejected for a
\* rule it breaks, and the collection does not wait for anybody.
Regular == {n \in Nodes : Kind(n) = "regular"}

ObeysRules ==
    /\ Kind(Outputs) = "dir"
    /\ \A n \in Nodes : Kind(n) \in {"absent", "dir", "regular"}
    /\ Regular \cap BadNames = {}
    /\ Cardinality(Regular) <= max_files
    /\ NodeBytes(tree, Regular) <= max_total_bytes

QuietResultExact ==
    changes = 0 =>
        /\ pc # "blocked"
        /\ pc = "done" =>
              /\ Kind(Outputs) = "absent" \/ ObeysRules
              /\ files = {[name |-> n, size |-> tree[n].size,
                           foreign |-> FALSE] : n \in Regular}
        /\ pc = "rejected" => Kind(Outputs) # "absent" /\ ~ObeysRules

\* The collection ends.  There are two ways for a surviving process to keep
\* it from ending, and no others: to put a FIFO in the place of a file after
\* the walk and never to open it, or to make directories, which _walk does
\* not count, for as long as it walks.
CollectionEnds ==
    \/ <>(pc \in {"done", "rejected"})
    \/ <>[](pc = "blocked")
    \/ []<><<MakeDirectory>>_vars
=============================================================================
