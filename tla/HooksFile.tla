------------------------------- MODULE HooksFile -------------------------------
(***************************************************************************)
(* settings.json of Claude, to which tam adds the hooks that report what   *)
(* an agent does: ensure_claude_hooks_at of tam-daemon/src/provider.rs.    *)
(* Each spawn of the daemon and `tam init` read the file, add what is      *)
(* missing and write the whole of it in place, with no lock between them   *)
(* or against the user.                                                    *)
(***************************************************************************)
EXTENDS Naturals

CONSTANTS
    HookWriters,  \* calls of ensure_claude_hooks_at
    Hooks,        \* the hook events tam reports states by (CLAUDE_STATE_HOOKS)
    MaxEdits,     \* bound: the user's hooks of one event
    HalfSettings  \* what a reader makes of a truncated or mixed file: no JSON

\* How many hooks an event has: tam's, those of its predecessor zinc, the user's.
Entries == [tam : Nat, zinc : Nat, user : Nat]
HookLists == [Hooks -> Entries]

ASSUME HooksAssumption == MaxEdits \in Nat /\ HalfSettings \notin HookLists

VARIABLES
    settings,    \* content of the file
    hookWriter,  \* how far each writer is
    users,       \* how many hooks of each event the user has put there
    hooksRaced   \* two changed the file at once, or one died changing it

hooksFile == <<settings, hookWriter, users, hooksRaced>>

HookWriter == [at : {"idle"}] \cup [at : {"read", "opened"}, copy : HookLists]
HookIdle == [at |-> "idle"]
HookStep(w, s) == hookWriter' = [hookWriter EXCEPT ![w] = s]

\* The writers between reading and writing.
AmidHooks == {w \in HookWriters : hookWriter[w] # HookIdle}

\* The file has been touched by tam's predecessor, the user, or nobody.
HooksInit ==
    /\ settings \in [Hooks -> [tam : {0}, zinc : 0..1, user : {0}]]
    /\ hookWriter = [w \in HookWriters |-> HookIdle]
    /\ users = [h \in Hooks |-> 0]
    /\ hooksRaced = FALSE

-----------------------------------------------------------------------------
(* Actions *)

\* Mutant of Installed: a hook of tam's predecessor is not recognised.
InstalledByTam(e) == e.tam > 0

\* entry_matches_hook, of any entry of the event.
Installed(e) == e.tam > 0 \/ e.zinc > 0

\* make_hook_entry, appended for each event without one.
WithHooks(lists) ==
    [h \in Hooks |-> IF Installed(lists[h]) THEN lists[h] ELSE [lists[h] EXCEPT !.tam = @ + 1]]

\* The file is read, and left alone when it cannot be parsed or lacks nothing.
ReadHooks(w) ==
    /\ hookWriter[w] = HookIdle
    /\ settings # HalfSettings /\ WithHooks(settings) # settings
    /\ HookStep(w, [at |-> "read", copy |-> WithHooks(settings)])
    /\ hooksRaced' = (hooksRaced \/ AmidHooks # {})
    /\ UNCHANGED <<settings, users>>

\* std::fs::write truncates the file...
OpenHooks(w) ==
    /\ hookWriter[w].at = "read"
    /\ settings' = HalfSettings
    /\ HookStep(w, [hookWriter[w] EXCEPT !.at = "opened"])
    /\ UNCHANGED <<users, hooksRaced>>

\* ... and writes it whole: over what another has written since it was truncated,
\* which can leave the end of that.
WriteHooks(w) ==
    /\ hookWriter[w].at = "opened"
    /\ \/ settings' = hookWriter[w].copy
       \/ settings # HalfSettings /\ settings' = HalfSettings
    /\ HookStep(w, HookIdle)
    /\ UNCHANGED <<users, hooksRaced>>

\* The user adds a hook, to any event.
UserAddsHook(h) ==
    /\ settings # HalfSettings /\ users[h] < MaxEdits
    /\ settings' = [settings EXCEPT ![h].user = @ + 1]
    /\ users' = [users EXCEPT ![h] = @ + 1]
    /\ hooksRaced' = (hooksRaced \/ AmidHooks # {})
    /\ UNCHANGED hookWriter

\* A writer's process dies.
HookWriterDies(w) ==
    /\ hookWriter[w] # HookIdle
    /\ HookStep(w, HookIdle)
    /\ hooksRaced' = (hooksRaced \/ hookWriter[w].at = "opened")
    /\ UNCHANGED <<settings, users>>

HooksNext ==
    \/ \E w \in HookWriters :
          ReadHooks(w) \/ OpenHooks(w) \/ WriteHooks(w) \/ HookWriterDies(w)
    \/ \E h \in Hooks : UserAddsHook(h)

HooksSpec == HooksInit /\ [][HooksNext]_hooksFile

-----------------------------------------------------------------------------
(* Properties *)

\* The variables have their types: a writer's copy is a file that can be written.
HooksTypeOK ==
    /\ settings \in HookLists \cup {HalfSettings}
    /\ hookWriter \in [HookWriters -> HookWriter]
    /\ users \in [Hooks -> 0..MaxEdits]
    /\ hooksRaced \in BOOLEAN

\* However the writers meet, and whoever changes the file between, each event has
\* one hook of tam's or its predecessor's: a second would report states twice.
HooksOnce ==
    settings # HalfSettings => \A h \in Hooks : settings[h].tam + settings[h].zinc <= 1

\* When writers do not overlap and none dies between truncating and writing, the
\* user's hooks are all there, whenever the file is not being written.
UsersHooksKept ==
    ~hooksRaced /\ (\A w \in AmidHooks : hookWriter[w].at = "read")
        => /\ settings # HalfSettings
           /\ \A h \in Hooks : settings[h].user = users[h]

\* The two together: what "idempotently add" and "left untouched" promise.
HooksIntact == HooksOnce /\ UsersHooksKept
===============================================================================
