------------------------------- MODULE FileStore -------------------------------
(***************************************************************************)
(* One JSON file of the main process (main/api/fileStore.ts) and the calls *)
(* that read and write it.  A partial save reads the file, merges and      *)
(* writes; nothing orders it against other calls.  A write truncates the   *)
(* file and fills it in two operations, and what does not parse is read as *)
(* the defaults.                                                           *)
(*                                                                         *)
(* The content is a function from fields to values.  One value stands for  *)
(* the retired endpoints and one for what replaces them; whoever reads a   *)
(* retired one writes the file back.  The clients of the file extend this  *)
(* module (CommonStorage, ListStores).                                     *)
(***************************************************************************)
EXTENDS Naturals

CONSTANTS
    Fields,       \* fields of the store
    Values,       \* values of a field
    Defaults,     \* DEFAULT_STORAGES[name], for every field
    Retired,      \* a value with a retired NineRealms URL
    Replacement,  \* what NINEREALMS_URL_MAP makes of it
    Slots,        \* bound: calls in flight at once
    MaxFailures   \* bound: file operations that fail

ASSUME ValuesAssumption ==
    /\ Replacement \in Values
    /\ Replacement # Retired
    /\ Defaults \in [Fields -> Values \ {Retired}]
ASSUME FailuresAssumption == MaxFailures \in Nat

VARIABLES
    file,       \* form and, if it parses, content of the file
    calls,      \* the calls of the file's handlers in flight
    failures,   \* operations that failed so far
    disturbed   \* history: a write met another one, took its base from an
                \* unfinished one, or was cut short, or a read failed

Content == [Fields -> Values]
Partial == UNION {[some -> Values] : some \in SUBSET Fields}
Forms == {"absent", "empty", "json", "garbage"}
Kinds == {"none", "get", "save", "ledger"}
Phases == {"idle", "checking", "reading", "opening", "filling", "answered",
           "rejected"}
Goals == {"none", "create", "migrate", "save"}

\* { ...base, ...partial }
Over(partial, base) ==
    [f \in Fields |-> IF f \in DOMAIN partial THEN partial[f] ELSE base[f]]

NoCall == [kind |-> "none", phase |-> "idle", goal |-> "none",
           partial |-> Defaults, data |-> Defaults]

FileTypeOK ==
    /\ file \in [form : Forms, data : Partial]
    /\ calls \in [Slots -> [kind : Kinds, phase : Phases, goal : Goals,
                            partial : Partial, data : Content]]
    /\ failures \in Nat
    /\ disturbed \in BOOLEAN

-----------------------------------------------------------------------------
\* migrateNineRealmsUrls.
MigrateNineRealmsUrls(content) ==
    [f \in Fields |-> IF content[f] = Retired THEN Replacement ELSE content[f]]

\* What getFileContent returns for the file as it is.
Shown ==
    IF file.form = "json"
    THEN MigrateNineRealmsUrls(Over(file.data, Defaults))
    ELSE Defaults

Idle(c) == calls[c].phase = "idle"
Writing(c) == calls[c].phase \in {"opening", "filling"}
Filling == {c \in Slots : calls[c].phase = "filling"}

Ask(c, kind, partial) ==
    [NoCall EXCEPT !.kind = kind, !.phase = "checking", !.partial = partial]

ToWrite(c, goal, content) ==
    [calls[c] EXCEPT !.phase = "opening", !.goal = goal, !.data = content]

\* Mutant of Obtained: the file's values win over the new ones.
ObtainedBelow(c, content) ==
    IF calls[c].kind = "save"
    THEN ToWrite(c, "save", Over(content, calls[c].partial))
    ELSE [calls[c] EXCEPT !.phase = "answered", !.data = content]

\* Mutant of Obtained: the fields the caller did not send get their defaults.
ObtainedAlone(c, content) ==
    IF calls[c].kind = "save"
    THEN ToWrite(c, "save", Over(calls[c].partial, Defaults))
    ELSE [calls[c] EXCEPT !.phase = "answered", !.data = content]

\* getFileContent has returned content: a save goes on to write, the others
\* answer.
Obtained(c, content) ==
    IF calls[c].kind = "save"
    THEN ToWrite(c, "save", Over(calls[c].partial, content))
    ELSE [calls[c] EXCEPT !.phase = "answered", !.data = content]

-----------------------------------------------------------------------------
(* The operations of a call                                                *)

\* isFileExist: without a file, a new one is created.
Check(c) ==
    /\ calls[c].phase = "checking"
    /\ calls' = [calls EXCEPT ![c] =
            IF file.form = "absent" THEN ToWrite(c, "create", Defaults)
            ELSE [calls[c] EXCEPT !.phase = "reading"]]
    /\ UNCHANGED <<file, failures, disturbed>>

\* fs.readJSON and what follows it: what does not parse is the defaults, what
\* names a retired URL is written back first.
Read(c) ==
    /\ calls[c].phase = "reading"
    /\ calls' = [calls EXCEPT ![c] =
            IF file.form = "json" /\ Shown # Over(file.data, Defaults)
            THEN ToWrite(c, "migrate", Shown)
            ELSE Obtained(c, Shown)]
    /\ disturbed' = (disturbed \/ (calls[c].kind = "save" /\ Filling # {}))
    /\ UNCHANGED <<file, failures>>

\* fs.writeJSON opens the file, which empties it.
Open(c) ==
    /\ calls[c].phase = "opening"
    /\ file' = [form |-> "empty", data |-> Defaults]
    /\ calls' = [calls EXCEPT ![c].phase = "filling"]
    /\ disturbed' = (disturbed \/ \E d \in Slots \ {c} : Writing(d))
    /\ UNCHANGED failures

\* fs.writeJSON writes at the beginning of the file.  If another write has
\* filled the file since it was opened, the rest of a longer text stays.
Fill(c) ==
    /\ calls[c].phase = "filling"
    /\ \/ file' = [form |-> "json", data |-> calls[c].data]
       \/ /\ file.form # "empty"
          /\ file' = [form |-> "garbage", data |-> Defaults]
    /\ calls' = [calls EXCEPT ![c] =
            IF calls[c].goal = "save" THEN [calls[c] EXCEPT !.phase = "answered"]
            ELSE Obtained(c, calls[c].data)]
    /\ UNCHANGED <<failures, disturbed>>

-----------------------------------------------------------------------------
(* An operation that fails                                                 *)

\* fs.pathExists takes any error for a missing file.
CheckFails(c) ==
    /\ calls[c].phase = "checking"
    /\ file.form # "absent"
    /\ calls' = [calls EXCEPT ![c] = ToWrite(c, "create", Defaults)]
    /\ disturbed' = TRUE
    /\ UNCHANGED file

ReadFails(c) ==
    /\ calls[c].phase = "reading"
    /\ calls' = [calls EXCEPT ![c] = Obtained(c, Defaults)]
    /\ disturbed' = (disturbed \/ calls[c].kind = "save")
    /\ UNCHANGED file

\* A migration that cannot be written is inside the try: the caller gets the
\* defaults.  A creation or a save rejects.
AfterFailedWrite(c) ==
    IF calls[c].goal = "migrate" THEN Obtained(c, Defaults)
    ELSE [calls[c] EXCEPT !.phase = "rejected"]

OpenFails(c) ==
    /\ calls[c].phase = "opening"
    /\ calls' = [calls EXCEPT ![c] = AfterFailedWrite(c)]
    /\ disturbed' = (disturbed \/ calls[c].goal = "migrate")
    /\ UNCHANGED file

\* No space left: the file stays emptied, or with part of the text.
FillFails(c) ==
    /\ calls[c].phase = "filling"
    /\ \/ UNCHANGED file
       \/ file' = [form |-> "garbage", data |-> Defaults]
    /\ calls' = [calls EXCEPT ![c] = AfterFailedWrite(c)]
    /\ disturbed' = TRUE

Fails(c) ==
    /\ failures < MaxFailures
    /\ failures' = failures + 1
    /\ \/ CheckFails(c)
       \/ ReadFails(c)
       \/ OpenFails(c)
       \/ FillFails(c)

\* The main process goes on with a call.
FileStep(c) ==
    \/ Check(c)
    \/ Read(c)
    \/ Open(c)
    \/ Fill(c)

\* The app ends.  A write that has opened the file and not filled it leaves
\* the file cut short.
Dies ==
    /\ disturbed' = (disturbed \/ Filling # {})
    /\ UNCHANGED <<file, failures>>

\* Any file an earlier life may have left.
FileInit ==
    /\ file \in {[form |-> form, data |-> Defaults] :
                    form \in {"absent", "empty", "garbage"}}
                \cup [form : {"json"}, data : Partial]
    /\ failures = 0
    /\ disturbed = FALSE

=============================================================================
