------------------------------ MODULE Contexts ------------------------------
(***************************************************************************)
(* Named data directories (context-store.ts, and the context commands and  *)
(* withResolvedDataDir of cli.ts): every command is a process of its own   *)
(* that loads the file once, changes its copy and writes the whole back.   *)
(* A file that cannot be parsed, one that is being written too, is taken   *)
(* for an empty one.                                                       *)
(***************************************************************************)
CONSTANTS
  Shells,   \* processes that run a context command
  Names,    \* of contexts
  Dirs,     \* data directories
  Nothing   \* no context, no directory

ASSUME ContextsConstants == Nothing \notin Names \cup Dirs

VARIABLES
  contextsFile,  \* what parseContextFile makes of contexts.v1.json
  shell,         \* shell[p]: where process p is, its copy, its task
  kept,          \* the contexts after all commands so far           (history)
  calm           \* no writer was cut off or ran beside another     (history)

contextVars == <<contextsFile, shell, kept, calm>>

ContextFile == [active : Names \cup {Nothing}, dir : [Names -> Dirs \cup {Nothing}]]

NoContexts == [active |-> Nothing, dir |-> [n \in Names |-> Nothing]]

Tasks ==
  [task : {"add"}, name : Names, dir : Dirs, makeActive : BOOLEAN]
    \cup [task : {"use", "remove"}, name : Names]

Gone == [at |-> "gone", copy |-> NoContexts]

ContextsInit ==
  /\ contextsFile = NoContexts /\ kept = NoContexts
  /\ shell = [p \in Shells |-> Gone]
  /\ calm = TRUE

-----------------------------------------------------------------------------
(* What a task makes of the contexts f.                                      *)

Changed(f, t) ==
  CASE t.task = "add" ->
         [active |-> IF t.makeActive \/ f.active = Nothing THEN t.name ELSE f.active,
          dir |-> [f.dir EXCEPT ![t.name] = t.dir]]
    [] t.task = "remove" ->
         [active |-> IF f.active = t.name THEN Nothing ELSE f.active,
          dir |-> [f.dir EXCEPT ![t.name] = Nothing]]
    [] t.task = "use" -> [f EXCEPT !.active = t.name]

\* use and remove ask for a context that is there.
Possible(f, t) == t.task # "add" => f.dir[t.name] # Nothing

\* resolveDataDir: of the context that is named, or else of the active one.
Resolved(f, n) ==
  IF n # Nothing THEN f.dir[n] ELSE IF f.active # Nothing THEN f.dir[f.active] ELSE Nothing

-----------------------------------------------------------------------------
(* Commands that change the contexts.                                        *)

Others(p) == {q \in Shells \ {p} : shell[q].at # "gone"}

\* From here on nobody knows what the file should be, unless calmly.
Calm(calmly) ==
  /\ calm' = (calm /\ calmly)
  /\ kept' = IF calm' THEN kept ELSE NoContexts

\* Faulty variant: a command does not load the file it changes.
Loaded_Nothing == NoContexts

Loaded_Contexts == contextsFile

\* A process starts, loads the contexts and changes its copy.
RunTask(p, t) ==
  /\ shell[p].at = "gone"
  /\ Possible(Loaded_Contexts, t)
  /\ shell' = [shell EXCEPT ![p] = [at |-> "open", copy |-> Changed(Loaded_Contexts, t), task |-> t]]
  /\ Calm(Others(p) = {})
  /\ UNCHANGED contextsFile

\* persist: writeFile empties the file before it fills it.
OpenContexts(p) ==
  /\ shell[p].at = "open"
  /\ shell' = [shell EXCEPT ![p].at = "fill"]
  /\ contextsFile' = NoContexts
  /\ UNCHANGED <<kept, calm>>

\* Where another has written since, the tail of its longer text may remain.
FillContexts(p) ==
  /\ shell[p].at = "fill"
  /\ contextsFile' \in
       IF contextsFile = NoContexts THEN {shell[p].copy} ELSE {shell[p].copy, NoContexts}
  /\ kept' = IF calm THEN Changed(kept, shell[p].task) ELSE kept
  /\ shell' = [shell EXCEPT ![p] = Gone]
  /\ UNCHANGED calm

Kill(p) ==
  /\ shell[p].at # "gone"
  /\ shell' = [shell EXCEPT ![p] = Gone]
  /\ Calm(shell[p].at # "fill")
  /\ UNCHANGED contextsFile

ContextsNext ==
  \E p \in Shells :
    \/ \E t \in Tasks : RunTask(p, t)
    \/ OpenContexts(p) \/ FillContexts(p) \/ Kill(p)

ContextsSpec == ContextsInit /\ [][ContextsNext]_contextVars

-----------------------------------------------------------------------------
(* Properties.                                                               *)

\* The file holds contexts, and the active one is one of them.
ContextsTypeOK ==
  /\ contextsFile \in ContextFile
  /\ contextsFile.active # Nothing => contextsFile.dir[contextsFile.active] # Nothing
  /\ \A p \in Shells : shell[p].at \in {"gone", "open", "fill"} /\ shell[p].copy \in ContextFile

\* A command that names a context, or means the active one, works in the
\* directory it was given last.  It finds none while another command is writing
\* the file, but never another directory: unless two commands once wrote at the
\* same time, or one was killed at it, and contexts were lost.
ResolvesRight ==
  calm => \A n \in Names \cup {Nothing} :
    \/ Resolved(contextsFile, n) = Resolved(kept, n)
    \/ Resolved(contextsFile, n) = Nothing /\ \E p \in Shells : shell[p].at = "fill"
=============================================================================
