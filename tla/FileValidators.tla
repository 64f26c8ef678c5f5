--------------------------- MODULE FileValidators ---------------------------
(***************************************************************************)
(* The four validators of files and directories.  Whether an application   *)
(* could write to a path is found out by trying before it runs, and what   *)
(* is created for the attempt is removed again by a guard,                 *)
(* safe_filesystem_entry.  Processes validate paths of one file system,    *)
(* their applications write there.  A step is one call of the operating    *)
(* system, and a process can be killed between two of them.                *)
(*                                                                         *)
(* Links lead to what is no link, nothing is reached through a link to a   *)
(* directory, removing a directory with all that is in it is one step, and *)
(* whoever may look at a path may remove what is there.                    *)
(***************************************************************************)
CONSTANTS
    Process,      \* one validation at a time in each
    Path,
    Below,        \* for each path, the paths inside it if it is a directory
    Dummy,        \* for each path, "dummy.txt" in it
    Target,       \* for each path, where it leads to if it is a link
    FileSystems,  \* what the first validation can find
    Permissions,  \* the paths nobody may read, and those nobody may write
    Requests      \* what the validators are asked to check

Entry == {"none", "empty", "data", "dir", "link"}

Files == {"empty", "data"}

Request == [kind : {"output_file", "output_directory", "input_file", "input_directory"},
            path : Path, create_new : BOOLEAN, extension_fits : BOOLEAN]

\* What is inside a directory is there only as long as the directory is.
IsTree(f) == \A d \in Path : \A p \in Below[d] : f[p] # "none" => f[d] = "dir"

LinksAreShort(f) == \A p \in Path : f[p] = "link" => f[Target[p]] # "link"

ASSUME PathAssumption ==
    /\ Below \in [Path -> SUBSET Path]
    /\ Dummy \in [Path -> Path]
    /\ Target \in [Path -> Path]
    /\ \A d \in Path : d \notin Below[d] /\ \A p \in Below[d] : Below[p] \subseteq Below[d]

ASSUME FileSystemAssumption ==
    /\ FileSystems \subseteq {f \in [Path -> Entry] : IsTree(f) /\ LinksAreShort(f)}
    /\ Permissions \subseteq [unreadable : SUBSET Path, unwritable : SUBSET Path]

ASSUME RequestAssumption ==
    /\ Requests \subseteq Request
    /\ \A r \in Requests : r.kind = "output_directory" =>
          /\ \A d \in Path : Dummy[r.path] \in Below[d] <=> d = r.path \/ r.path \in Below[d]
          /\ \A f \in FileSystems : f[r.path] # "link"

VARIABLES
    fs,           \* what is at each path
    permissions,  \* never changes
    pc,           \* the next call of each validator
    request,      \* what it validates
    dir_exists,   \* a local variable of output_directory_validator
    before,       \* history: fs when the first of the running validations began
    alone         \* history: the validator nothing else has happened beside since then

vars == <<fs, permissions, pc, request, dir_exists, before, alone>>

history == <<before, alone>>

(***************************************************************************)
(* The file system.  A call follows a link, except when it removes.        *)
(***************************************************************************)
Resolve(p) == IF fs[p] = "link" THEN Target[p] ELSE p

Exists(p) == fs[Resolve(p)] # "none"

IsDirectory(p) == fs[Resolve(p)] = "dir"

CanRead(p) == Exists(p) /\ Resolve(p) \notin permissions.unreadable

CanCreate(p) ==
    p \notin permissions.unwritable /\ \A d \in Path : p \in Below[d] => fs[d] = "dir"

CanOpen(p) == CanCreate(Resolve(p)) /\ fs[Resolve(p)] \in Files \cup {"none"}

Put(p, entry) == [fs EXCEPT ![p] = entry]

RemoveEntry(p) == [fs EXCEPT ![p] = "none"]

RemoveAll(p) == [q \in Path |-> IF q = p \/ q \in Below[p] THEN "none" ELSE fs[q]]

IsEmpty(p) == \A q \in Below[p] : fs[q] = "none"

----------------------------------------------------------------------------
Ended == {"idle", "passed", "threw"}

Runs(v) == pc[v] \notin Ended

At(v, label) == pc[v] = label

GoTo(v, label) == pc' = [pc EXCEPT ![v] = label]

\* A call that finds the file system in one way or another and goes on.
Look(v, label, found, ifFound, ifNot) ==
    /\ At(v, label)
    /\ \/ found /\ GoTo(v, ifFound)
       \/ ~found /\ GoTo(v, ifNot)
    /\ UNCHANGED <<fs, permissions, request, dir_exists, history>>

Changes(v) == UNCHANGED <<permissions, request, dir_exists, history>>

path(v) == request[v].path

(***************************************************************************)
(* The path that validate_writeability is called with.                     *)
(***************************************************************************)
Probe(v) == IF request[v].kind = "output_directory" THEN Dummy[path(v)] ELSE path(v)

FirstCall(kind) ==
    CASE kind = "output_file" -> "is_directory"
      [] kind = "output_directory" -> "dir_exists"
      [] OTHER -> "input_exists"

Init ==
    /\ fs \in FileSystems
    /\ permissions \in Permissions
    /\ pc = [v \in Process |-> "idle"]
    /\ request \in [Process -> Requests]
    /\ dir_exists = [v \in Process |-> FALSE]
    /\ before = fs
    /\ alone = {}

Start(v) ==
    /\ ~Runs(v)
    /\ \E r \in Requests : /\ request' = [request EXCEPT ![v] = r]
                           /\ GoTo(v, FirstCall(r.kind))
    /\ dir_exists' = [dir_exists EXCEPT ![v] = FALSE]
    /\ IF \E w \in Process : Runs(w) THEN before' = before /\ alone' = {}
                                     ELSE before' = fs /\ alone' = {v}
    /\ UNCHANGED <<fs, permissions>>

(***************************************************************************)
(* output_file_validator: no directory, and with create_new no file.       *)
(***************************************************************************)
IsNoDirectory(v) ==
    Look(v, "is_directory", IsDirectory(path(v)), "threw", "create_new")

CreateNew(v) ==
    Look(v, "create_new", request[v].create_new /\ Exists(path(v)), "threw", "contingency")

ValidateFilename(v) ==
    Look(v, "validate_filename", request[v].extension_fits, "passed", "threw")

(***************************************************************************)
(* validate_writeability, and where its caller goes on when it returns or  *)
(* throws.  An existing path is opened for appending, any other is created *)
(* under a guard, whose destructor removes it whether or not remove() has. *)
(***************************************************************************)
AfterReturnOfAny(v) ==  \* mutant
    IF request[v].kind # "output_directory" THEN "validate_filename" ELSE "remove_all"

AfterReturn(v) ==
    CASE request[v].kind # "output_directory" -> "validate_filename"
      [] request[v].kind = "output_directory" /\ dir_exists[v] -> "passed"
      [] OTHER -> "remove_all"

AfterThrowUnguarded(v) == "threw"  \* mutant

AfterThrow(v) ==
    IF request[v].kind = "output_directory" /\ ~dir_exists[v] THEN "unwind_dir" ELSE "threw"

Contingency(v) ==
    Look(v, "contingency", IsDirectory(Probe(v)), AfterThrow(v), "exists")

ProbeExists(v) == Look(v, "exists", Exists(Probe(v)), "append", "create")

Append(v) ==
    /\ At(v, "append")
    /\ \/ /\ CanOpen(Probe(v)) /\ GoTo(v, AfterReturn(v))
          /\ fs' = IF Exists(Probe(v)) THEN fs ELSE Put(Resolve(Probe(v)), "empty")
       \/ ~CanOpen(Probe(v)) /\ GoTo(v, AfterThrow(v)) /\ UNCHANGED fs
    /\ Changes(v)

Create(v) ==
    /\ At(v, "create")
    /\ \/ CanOpen(Probe(v)) /\ GoTo(v, "remove") /\ fs' = Put(Resolve(Probe(v)), "empty")
       \/ ~CanOpen(Probe(v)) /\ GoTo(v, "unwind") /\ UNCHANGED fs
    /\ Changes(v)

Remove(v) ==
    /\ At(v, "remove")
    /\ \/ IsEmpty(Probe(v)) /\ GoTo(v, "release") /\ fs' = RemoveEntry(Probe(v))
       \/ ~IsEmpty(Probe(v)) /\ GoTo(v, "unwind") /\ UNCHANGED fs
    /\ Changes(v)

Release(v) ==
    /\ \/ At(v, "release") /\ GoTo(v, AfterReturn(v))
       \/ At(v, "unwind") /\ GoTo(v, AfterThrow(v))
    /\ fs' = RemoveAll(Probe(v))
    /\ Changes(v)

(***************************************************************************)
(* output_directory_validator around it: what does not exist is created,   *)
(* and removed again by a guard.                                           *)
(***************************************************************************)
DirExists(v) ==
    /\ At(v, "dir_exists")
    /\ dir_exists' = [dir_exists EXCEPT ![v] = Exists(path(v))]
    /\ GoTo(v, "create_directory")
    /\ UNCHANGED <<fs, permissions, request, history>>

CreateDirectory(v) ==
    /\ At(v, "create_directory")
    /\ \/ IsDirectory(path(v)) /\ GoTo(v, "contingency") /\ UNCHANGED fs
       \/ /\ fs[path(v)] = "none" /\ CanCreate(path(v))
          /\ GoTo(v, "contingency") /\ fs' = Put(path(v), "dir")
       \/ /\ ~IsDirectory(path(v)) /\ ~(fs[path(v)] = "none" /\ CanCreate(path(v)))
          /\ GoTo(v, "threw") /\ UNCHANGED fs
    /\ Changes(v)

ReleaseDirectory(v) ==
    /\ \/ At(v, "remove_all") /\ GoTo(v, "release_dir")
       \/ At(v, "release_dir") /\ GoTo(v, "passed")
       \/ At(v, "unwind_dir") /\ GoTo(v, "threw")
    /\ fs' = RemoveAll(path(v))
    /\ Changes(v)

(***************************************************************************)
(* The input validators, and validate_readability, which they share.       *)
(***************************************************************************)
InputExists(v) ==
    Look(v, "input_exists", Exists(path(v)),
         IF request[v].kind = "input_file" THEN "readable" ELSE "input_is_directory", "threw")

InputIsDirectory(v) ==
    Look(v, "input_is_directory", IsDirectory(path(v)), "readable", "threw")

AfterReading(v) ==
    IF request[v].kind = "input_file" THEN "validate_filename" ELSE "passed"

Readable(v) == Look(v, "readable", IsDirectory(path(v)), "list", "is_regular")

List(v) ==
    Look(v, "list", IsDirectory(path(v)) /\ CanRead(path(v)), AfterReading(v), "threw")

IsRegular(v) == Look(v, "is_regular", fs[Resolve(path(v))] \in Files, "open", "threw")

OpenInput(v) == Look(v, "open", CanRead(path(v)), AfterReading(v), "threw")

----------------------------------------------------------------------------
(***************************************************************************)
(* The application writes its output, once the validator has passed.  What *)
(* was there before is its own to overwrite.                               *)
(***************************************************************************)
Writes(v, p) ==
    /\ before' = [before EXCEPT ![p] = IF before[p] \in Files THEN "data" ELSE before[p]]
    /\ alone' = {}
    /\ GoTo(v, "idle")
    /\ UNCHANGED <<permissions, request, dir_exists>>

WriteFile(v) ==
    /\ At(v, "passed") /\ request[v].kind = "output_file"
    /\ CanOpen(path(v))
    /\ fs' = Put(Resolve(path(v)), "data")
    /\ Writes(v, Resolve(path(v)))

WriteInDirectory(v) ==
    /\ At(v, "passed") /\ request[v].kind = "output_directory"
    /\ fs[path(v)] = "none" => CanCreate(path(v))
    /\ fs[path(v)] \in {"none", "dir"}
    /\ \E p \in Below[path(v)] :
          /\ fs[p] \in Files \cup {"none"} /\ p \notin permissions.unwritable
          /\ \A d \in Path : p \in Below[d] => d = path(v) \/ fs[d] = "dir"
          /\ fs' = [fs EXCEPT ![path(v)] = "dir", ![p] = "data"]
          /\ Writes(v, p)

Kill(v) ==
    /\ Runs(v)
    /\ GoTo(v, "idle")
    /\ alone' = {}
    /\ UNCHANGED <<fs, permissions, request, dir_exists, before>>

OutputFileStep(v) == IsNoDirectory(v) \/ CreateNew(v) \/ ValidateFilename(v)

WriteabilityStep(v) ==
    Contingency(v) \/ ProbeExists(v) \/ Append(v) \/ Create(v) \/ Remove(v) \/ Release(v)

OutputDirectoryStep(v) == DirExists(v) \/ CreateDirectory(v) \/ ReleaseDirectory(v)

InputStep(v) ==
    InputExists(v) \/ InputIsDirectory(v) \/ Readable(v) \/ List(v) \/ IsRegular(v)
    \/ OpenInput(v)

Validate(v) ==
    OutputFileStep(v) \/ WriteabilityStep(v) \/ OutputDirectoryStep(v) \/ InputStep(v)

Next == \E v \in Process :
    Start(v) \/ Validate(v) \/ WriteFile(v) \/ WriteInDirectory(v) \/ Kill(v)

Spec == Init /\ [][Next]_vars

----------------------------------------------------------------------------
Labels == Ended \cup
    {"is_directory", "create_new", "validate_filename", "contingency", "exists",
     "append", "create", "remove", "release", "unwind", "dir_exists",
     "create_directory", "remove_all", "release_dir", "unwind_dir", "input_exists",
     "input_is_directory", "readable", "list", "is_regular", "open"}

(***************************************************************************)
(* The state has its type, and what is inside a directory that a guard     *)
(* removes goes with it.                                                   *)
(***************************************************************************)
TypeOK ==
    /\ fs \in [Path -> Entry] /\ IsTree(fs)
    /\ permissions \in Permissions
    /\ pc \in [Process -> Labels]
    /\ request \in [Process -> Requests]
    /\ dir_exists \in [Process -> BOOLEAN]
    /\ before \in [Path -> Entry] /\ IsTree(before)
    /\ alone \subseteq Process

Dangling(f, p) == f[p] = "link" /\ f[Target[p]] = "none"

(***************************************************************************)
(* "An existing file is left unchanged": however many validators overlap   *)
(* and wherever they are killed, what was there before the first of them   *)
(* began stays as it was, or becomes what an application writes, links     *)
(* that lead nowhere excepted.                                             *)
(***************************************************************************)
ExistingIsKept ==
    \A p \in Path :
        before[p] # "none" /\ ~Dangling(before, p) => fs[p] = before[p]

(***************************************************************************)
(* What the calls of each validator test, as one look at fs.  A directory  *)
(* that can be listed is an input file, because validate_readability is    *)
(* shared with input directories, although "an existing regular file" is   *)
(* documented (validators.hpp:568).                                        *)
(***************************************************************************)
Accepts(r) ==
    CASE r.kind = "output_file" ->
            /\ ~IsDirectory(r.path) /\ CanOpen(r.path) /\ r.extension_fits
            /\ r.create_new => ~Exists(r.path)
      [] r.kind = "output_directory" ->
            \/ IsDirectory(r.path) /\ CanOpen(Dummy[r.path])
            \/ /\ fs[r.path] = "none" /\ CanCreate(r.path)
               /\ Dummy[r.path] \notin permissions.unwritable
      [] r.kind = "input_file" -> CanRead(r.path) /\ r.extension_fits
      [] r.kind = "input_directory" -> IsDirectory(r.path) /\ CanRead(r.path)

(***************************************************************************)
(* "A file that does not exist is created for the check and removed        *)
(* afterwards": a validator that nothing happened beside gives the answer  *)
(* one look would have given, and leaves no trace on any of its ways out.  *)
(***************************************************************************)
LeavesNoTrace ==
    \A v \in alone :
        pc[v] \in {"passed", "threw"} /\ ~Dangling(before, Probe(v)) =>
            /\ fs = before
            /\ At(v, "passed") <=> Accepts(request[v])

(***************************************************************************)
(* The same without the exception, as the comment has it.  A link that     *)
(* leads nowhere does not exist for std::filesystem::exists, opening it    *)
(* creates what it leads to, and the guard removes the link.               *)
(***************************************************************************)
LinksAreLeftAlone ==
    \A v \in alone : pc[v] \in {"passed", "threw"} => fs = before

(***************************************************************************)
(* "Make sure the created dir is deleted after we are done": the guard is  *)
(* for a directory that this validator has created, and for no other.      *)
(***************************************************************************)
GuardsItsOwn ==
    [][\A v \in Process :
          At(v, "create_directory") /\ GoTo(v, "contingency") =>
              (dir_exists[v] <=> IsDirectory(path(v)))]_vars
=============================================================================
