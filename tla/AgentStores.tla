---------------------------- MODULE AgentStores ----------------------------
(***************************************************************************)
(* The stores of the configured agents: providers.json and agents.json     *)
(* (internal/agents/store.go, selection.go) and the keychain (secrets.go), *)
(* changed by the handlers of every session (internal/session/handler.go)  *)
(* and by the command line (cmd/krellin/providers.go). An operation loads, *)
(* changes and saves without a lock, and os.WriteFile first truncates the  *)
(* file: each read, truncation and write is a step, and each open and      *)
(* write may fail. A file that is truncated, written in part, or a mix of  *)
(* two writes, is Torn: it cannot be decoded.                              *)
(***************************************************************************)
EXTENDS Providers, SequencesExt

CONSTANTS
    Torn,         \* the content of a file that cannot be decoded
    Sessions,     \* whose executors run the handlers
    CommandLine,  \* a "krellin providers add"
    MaxOps,       \* bound: operations
    MaxDeaths,    \* bound: times the daemon or the command line dies
    Faults        \* may opening or writing a file, or the keychain, fail?

Writers == Sessions \cup {CommandLine}
Lists == Seq([name : Names, enabled : BOOLEAN])

ASSUME StoresAssumption ==
    /\ IsFiniteSet(Names) /\ None \notin Names /\ Torn \notin Names \cup {None} \cup Lists
    /\ CommandLine \notin Sessions
    /\ MaxOps \in Nat /\ MaxDeaths \in Nat /\ Faults \in BOOLEAN

VARIABLES
    providers,  \* the content of providers.json; a missing file is an empty list
    selection,  \* the active agent in agents.json
    secrets,    \* the names whose key the keychain holds
    op,         \* the operation of each writer
    at,         \* where it is
    list,       \* the list it has loaded, and then changed
    active,     \* the selection it has loaded, or is about to save
    ops, deaths, \* how many there were
    alone,      \* history: no other operation overlapped this one
    before,     \* history: the files when it began
    left,       \* history: the names whose key the keychain last refused to delete
    calm        \* history: nothing overlapped, failed or died so far

files == <<providers, selection, secrets, left>>
local == <<op, at, list, active, alone, before>>
count == <<ops, deaths>>
vars == <<files, local, count, calm>>

Agent(name, enabled) == [name |-> name, enabled |-> enabled]
Changes == {"set_active", "toggle", "add", "delete"}
Reads == {"list", "prompt"}
Idle == {"idle", "ok", "failed"}

Operations ==
    [kind : {"set_active", "delete"}, name : Names, enabled : {TRUE}, key : {FALSE}]
    \cup [kind : {"toggle"}, name : Names, enabled : BOOLEAN, key : {FALSE}]
    \cup [kind : {"add"}, name : Names, enabled : BOOLEAN, key : BOOLEAN]
    \cup [kind : Reads, name : {None}, enabled : {TRUE}, key : {FALSE}]

\* The command line only adds, and never a key.
Offered(w) ==
    IF w = CommandLine THEN {o \in Operations : o.kind = "add" /\ ~o.key} ELSE Operations

Nothing == [kind |-> "list", name |-> None, enabled |-> TRUE, key |-> FALSE]
Now == [providers |-> providers, selection |-> selection]

Init ==
    /\ \/ providers = << >> /\ selection = None /\ secrets = {}
       \/ /\ providers = SetToSeq({Agent(name, TRUE) : name \in Names})
          /\ selection \in Names \cup {None}
          /\ secrets \in {{}, Names}
    /\ op = [w \in Writers |-> Nothing] /\ at = [w \in Writers |-> "idle"]
    /\ list = [w \in Writers |-> << >>] /\ active = [w \in Writers |-> None]
    /\ alone = [w \in Writers |-> TRUE] /\ before = [w \in Writers |-> << >>]
    /\ ops = 0 /\ deaths = 0 /\ calm = TRUE /\ left = {}

-----------------------------------------------------------------------------
(* The control of a handler: where it goes next, and how it ends.          *)
Busy == {w \in Writers : at[w] \notin Idle}

Go(w, stage) == at' = [at EXCEPT ![w] = stage] /\ UNCHANGED <<op, alone, before>>

Forget(ws, outcome) ==
    /\ at' = [w \in Writers |-> IF w \in ws THEN outcome ELSE at[w]]
    /\ op' = [w \in Writers |-> IF w \in ws THEN Nothing ELSE op[w]]
    /\ list' = [w \in Writers |-> IF w \in ws THEN << >> ELSE list[w]]
    /\ active' = [w \in Writers |-> IF w \in ws THEN None ELSE active[w]]
    /\ alone' = [w \in Writers |-> w \in ws \/ alone[w]]
    /\ before' = [w \in Writers |-> IF w \in ws THEN << >> ELSE before[w]]

Succeed(w) == Forget({w}, "ok") /\ UNCHANGED calm
Refuse(w) == Forget({w}, "failed") /\ UNCHANGED calm
Fail(w) == Forget({w}, "failed") /\ calm' = FALSE

At(w, stage) == at[w] = stage /\ UNCHANGED count

FirstStage(o) ==
    CASE o.kind = "add" /\ o.key -> "set_key"
      [] o.kind = "list"         -> "list_providers"
      [] OTHER                   -> "load"

Begin(w) ==
    /\ at[w] \in Idle
    /\ ops < MaxOps /\ ops' = ops + 1
    /\ \E o \in Offered(w) :
          /\ op' = [op EXCEPT ![w] = o]
          /\ at' = [at EXCEPT ![w] = FirstStage(o)]
    /\ alone' = [v \in Writers |-> IF v \in Busy \cup {w} THEN Busy = {} ELSE alone[v]]
    /\ before' = [before EXCEPT ![w] = Now]
    /\ calm' = (calm /\ Busy = {})
    /\ UNCHANGED <<files, list, active, deaths>>

-----------------------------------------------------------------------------
(* Load, change, save.                                                     *)
ChangedAlone(o, loaded) ==
    CASE o.kind = "add"    -> <<Agent(o.name, o.enabled)>>
      [] o.kind = "delete" -> Without(loaded, o.name)
      [] OTHER             -> SetEnabled(loaded, o.name, o.enabled)

Changed(o, loaded) ==
    CASE o.kind = "set_active" -> SetEnabled(loaded, o.name, TRUE)
      [] o.kind = "toggle"     -> SetEnabled(loaded, o.name, o.enabled)
      [] o.kind = "add"        -> Upsert(loaded, Agent(o.name, o.enabled))
      [] o.kind = "delete"     -> Without(loaded, o.name)

SetKey(w) ==
    /\ At(w, "set_key")
    /\ \/ /\ secrets' = secrets \cup {op[w].name}
          /\ Go(w, "load") /\ UNCHANGED <<list, active, calm>>
       \/ Faults /\ Fail(w) /\ UNCHANGED secrets
    /\ UNCHANGED <<providers, selection, left>>

LoadChange(w) ==
    /\ At(w, "load") /\ op[w].kind # "prompt"
    /\ \/ /\ providers # Torn
          /\ op[w].kind = "add" \/ Has(providers, op[w].name)
          /\ list' = [list EXCEPT ![w] = Changed(op[w], providers)]
          /\ Go(w, "open") /\ UNCHANGED <<active, calm>>
       \/ /\ providers # Torn
          /\ op[w].kind # "add" /\ ~Has(providers, op[w].name)
          /\ Refuse(w)
       \/ /\ providers = Torn
          /\ op[w].kind = "add" /\ w \in Sessions   \* upsertProviders starts afresh
          /\ list' = [list EXCEPT ![w] = <<Agent(op[w].name, op[w].enabled)>>]
          /\ Go(w, "open") /\ UNCHANGED <<active, calm>>
       \/ /\ providers = Torn
          /\ op[w].kind # "add" \/ w = CommandLine
          /\ Fail(w)
    /\ UNCHANGED files

\* os.WriteFile opens the file and truncates it, or fails, ...
Open(w) ==
    /\ At(w, "open")
    /\ \/ providers' = Torn /\ Go(w, "write") /\ UNCHANGED <<list, active, calm>>
       \/ Faults /\ Fail(w) /\ UNCHANGED providers
    /\ UNCHANGED <<selection, secrets, left>>

\* ... and writes from its start, over what another writer put there meanwhile.
Written(file, content) == IF file = Torn THEN {content} ELSE {content, Torn}

AfterSaveKeepingKey(o) ==
    CASE o.kind = "set_active"         -> "open_selection"
      [] o.kind \in {"toggle", "delete"} -> "load_selection"
      [] o.kind = "add"                -> "list_providers"

AfterSave(o) ==
    CASE o.kind = "set_active" -> "open_selection"
      [] o.kind = "toggle"     -> "load_selection"
      [] o.kind = "delete"     -> "delete_key"
      [] o.kind = "add"        -> "list_providers"

\* It fails after nothing, a part or all of the content.
Unwritten(file, content) == Written(file, content) \cup {file, Torn}

Write(w) ==
    /\ At(w, "write")
    /\ \/ /\ providers' \in Written(providers, list[w])
          /\ w = CommandLine /\ Succeed(w)
       \/ /\ providers' \in Written(providers, list[w])
          /\ w \in Sessions /\ Go(w, AfterSave(op[w]))
          /\ active' = [active EXCEPT
                ![w] = IF op[w].kind = "set_active" THEN op[w].name ELSE None]
          /\ UNCHANGED <<list, calm>>
       \/ /\ providers' \in Unwritten(providers, list[w])
          /\ Faults /\ Fail(w)
    /\ UNCHANGED <<selection, secrets, left>>

\* An error of the keychain is ignored.
DeleteKey(w) ==
    /\ At(w, "delete_key")
    /\ \/ secrets' = secrets \ {op[w].name}
       \/ Faults /\ UNCHANGED secrets
    /\ left' = (left \ {op[w].name}) \cup (secrets' \cap {op[w].name})
    /\ calm' = (calm /\ op[w].name \notin secrets')
    /\ Go(w, "load_selection")
    /\ UNCHANGED <<providers, selection, list, active>>

\* What must no longer be the active agent.
ClearsDeletedOnly(o) == o.kind = "delete"
Clears(o) == o.kind = "delete" \/ ~o.enabled

LoadSelection(w) ==
    /\ At(w, "load_selection")
    /\ \/ selection = Torn /\ Fail(w)
       \/ /\ selection # Torn
          /\ Go(w, IF Clears(op[w]) /\ selection = op[w].name
                   THEN "open_selection" ELSE "list_providers")
          /\ UNCHANGED <<list, active, calm>>
    /\ UNCHANGED files

OpenSelection(w) ==
    /\ At(w, "open_selection")
    /\ \/ selection' = Torn /\ Go(w, "write_selection") /\ UNCHANGED <<list, active, calm>>
       \/ Faults /\ Fail(w) /\ UNCHANGED selection
    /\ UNCHANGED <<providers, secrets, left>>

WriteSelection(w) ==
    /\ At(w, "write_selection")
    /\ \/ /\ selection' \in Written(selection, active[w])
          /\ Go(w, "list_providers") /\ UNCHANGED <<list, active, calm>>
       \/ /\ selection' \in Unwritten(selection, active[w])
          /\ Faults /\ Fail(w)
    /\ UNCHANGED <<providers, secrets, left>>

-----------------------------------------------------------------------------
(* The list that every handler emits at its end, and the agent of a prompt.*)
ListProviders(w) ==
    /\ At(w, "list_providers")
    /\ \/ providers = Torn /\ Fail(w)
       \/ /\ providers # Torn
          /\ list' = [list EXCEPT ![w] = providers]
          /\ Go(w, "list_selection") /\ UNCHANGED <<active, calm>>
    /\ UNCHANGED files

ListSelection(w) ==
    /\ At(w, "list_selection")
    /\ \/ selection = Torn /\ Fail(w)
       \/ selection # Torn /\ Succeed(w)
    /\ UNCHANGED files

LoadForPrompt(w) ==
    /\ At(w, "load") /\ op[w].kind = "prompt"
    /\ \/ providers = Torn /\ Fail(w)
       \/ /\ providers # Torn
          /\ list' = [list EXCEPT ![w] = providers]
          /\ Go(w, "resolve") /\ UNCHANGED <<active, calm>>
    /\ UNCHANGED files

\* The selected agent if it is there and enabled; the first enabled one only
\* if none is selected.
Resolves(loaded, selected) ==
    \E i \in DOMAIN loaded :
        loaded[i].enabled /\ selected \in {None, loaded[i].name}

Resolve(w) ==
    /\ At(w, "resolve")
    /\ \/ selection = Torn /\ Fail(w)
       \/ selection # Torn /\ ~Resolves(list[w], selection) /\ Refuse(w)
       \/ selection # Torn /\ Resolves(list[w], selection) /\ Succeed(w)
    /\ UNCHANGED files

\* The handlers of every session run in the daemon, and die with it.
Dies ==
    /\ deaths < MaxDeaths /\ deaths' = deaths + 1
    /\ \E ws \in {Busy \cap Sessions, Busy \cap {CommandLine}} :
          ws # {} /\ Forget(ws, "failed")
    /\ calm' = FALSE
    /\ UNCHANGED <<files, ops>>

Step(w) ==
    \/ SetKey(w) \/ LoadChange(w) \/ Open(w) \/ Write(w) \/ DeleteKey(w)
    \/ LoadSelection(w) \/ OpenSelection(w) \/ WriteSelection(w)
    \/ ListProviders(w) \/ ListSelection(w) \/ LoadForPrompt(w) \/ Resolve(w)

Next == Dies \/ \E w \in Writers : Begin(w) \/ Step(w)

Spec == Init /\ [][Next]_vars

-----------------------------------------------------------------------------
TypeOK ==
    /\ providers \in Lists \cup {Torn}
    /\ selection \in Names \cup {None, Torn}
    /\ secrets \subseteq Names /\ left \subseteq Names
    /\ op \in [Writers -> Operations] /\ list \in [Writers -> Lists]
    /\ active \in [Writers -> Names \cup {None}]
    /\ alone \in [Writers -> BOOLEAN] /\ calm \in BOOLEAN

Completes(w) == at[w] \notin Idle /\ at'[w] \in {"ok", "failed"}
Succeeds(w) == at[w] \notin Idle /\ at'[w] = "ok"

Enabled(loaded, name) == \E i \in DOMAIN loaded : loaded[i] = Agent(name, TRUE)

\* What an operation that reports success has done to the stores.
Effect(o, file, selected, keys, keptKeys) ==
    /\ file # Torn
    /\ CASE o.kind = "set_active" -> Enabled(file, o.name) /\ selected = o.name
         [] o.kind = "toggle"     -> /\ Enabled(file, o.name) = o.enabled
                                     /\ o.enabled \/ selected # o.name
         [] o.kind = "add"        -> /\ Has(file, o.name)
                                     /\ Enabled(file, o.name) = o.enabled
                                     /\ o.key => o.name \in keys
         [] o.kind = "delete"     -> /\ ~Has(file, o.name) /\ selected # o.name
                                     /\ o.name \notin keys \/ o.name \in keptKeys
         [] o.kind = "prompt"     -> Resolves(file, selected)
         [] o.kind = "list"       -> TRUE

(***************************************************************************)
(* An operation that reports success and that nothing overlapped has done  *)
(* to all three stores what it is to do, whatever happened to them before, *)
(* and the list it emitted is the one that is stored                       *)
(* (handler.go:241, 273, 425, 475). The exception is the key of a deleted  *)
(* agent: it stays, and delete still reports success, if the keychain      *)
(* refuses to delete it (handler.go:503 drops the error).                  *)
(***************************************************************************)
SuccessIsEffective ==
    [][\A w \in Writers : Succeeds(w) /\ alone[w] =>
          /\ Effect(op[w], providers', selection', secrets', left')
          /\ w \in Sessions => list[w] = providers']_vars

(***************************************************************************)
(* However an operation that nothing overlapped ends, by success, by an    *)
(* error half-way or by the death of its process, every agent but its own  *)
(* is as it was, and so is the selection unless it is about that agent.    *)
(* There is one way to lose them, and it loses the whole file: to end      *)
(* after os.WriteFile has truncated the file and before it has written it  *)
(* (store.go:71, selection.go:54). A list that could not be read before is *)
(* excepted: a session's add starts afresh after one (handler.go:543).     *)
(***************************************************************************)
OthersAreSpared ==
    [][\A w \in Writers :
          (Completes(w) /\ alone[w] /\ before[w].providers # Torn) =>
              LET o == op[w]
                  was == before[w]
              IN /\ IF providers' = Torn THEN at[w] = "write"
                    ELSE Without(providers', o.name) = Without(was.providers, o.name)
                 /\ \/ selection' \in {was.selection, o.name} \/ was.selection = o.name
                    \/ selection' = Torn /\ at[w] = "write_selection"]_vars

(***************************************************************************)
(* The three stores fit together after any sequence of operations of       *)
(* sessions and of the command line that do not overlap or break: the      *)
(* active agent exists, and every key in the keychain has its agent.       *)
(***************************************************************************)
StoresFit ==
    (calm /\ Busy = {}) =>
        /\ selection = None \/ Has(providers, selection)
        /\ \A name \in secrets : Has(providers, name)

(***************************************************************************)
(* An agent that an operation reports as added or deleted is there or gone *)
(* also when others overlap it. It is not: a save writes back the whole    *)
(* list that was loaded before (handler.go:454, 499, store.go:74-90).      *)
(***************************************************************************)
StoresAreSerialized ==
    [][\A w \in Writers :
          (Succeeds(w) /\ op[w].kind \in {"add", "delete"} /\ Torn \notin {providers', selection'})
             => Effect(op[w], providers', selection', secrets', left')]_vars

(***************************************************************************)
(* When nobody writes, the files can be read. After the daemon died in a   *)
(* save, a write failed, or two saves were made at once, they cannot       *)
(* (store.go:71).                                                          *)
(***************************************************************************)
QuietFilesAreWhole == Busy = {} => Torn \notin {providers, selection}

(***************************************************************************)
(* The active agent is one that a prompt can use. An add may disable it    *)
(* without clearing the selection, as toggle does (handler.go:303, 454).   *)
(***************************************************************************)
ActiveIsUsable ==
    (calm /\ Busy = {} /\ selection # None) => Enabled(providers, selection)
=============================================================================
