---------------------------- MODULE FileStorage ----------------------------
(***************************************************************************)
(* The local resource store of kk (feature/pkg/proxy/internal): objects    *)
(* are yaml files in a namespace directory, a deletion renames the file to *)
(* a tagged name, and a fileWatcher turns file system notifications into   *)
(* watch events and removes the tagged file once it has sent Deleted.      *)
(*                                                                         *)
(* Every process that opens the store has one fileWatcher, whose consumer  *)
(* is the API server's cacher (rest_option.go); the cacher lists, watches, *)
(* and hands its own copy of an object to GuaranteedUpdate and Delete as   *)
(* cachedExistingObject.  os.WriteFile is its two system calls, open with  *)
(* truncation and write; an open file keeps its inode through a rename.    *)
(***************************************************************************)
EXTENDS Naturals, Sequences

CONSTANTS
    Processes,      \* the processes that share the runtime directory
    Clients,        \* threads that call the API
    Home,           \* the process a client runs in
    Names,          \* objects of the namespace
    Settings,       \* how the store may be found and used: see setting
    MaxOps,         \* bound: calls made
    MaxExits        \* bound: processes that end and are started again

ASSUME HomeAssumption == Home \in [Clients -> Processes]
ASSUME SettingAssumption ==
    Settings \subseteq [dir : BOOLEAN, started : BOOLEAN, callers : SUBSET Clients]
ASSUME CallAssumption == MaxOps \in Nat /\ MaxExits \in Nat

VARIABLES
    setting,        \* chosen once: is there a namespace directory, do the watchers
                    \* run at the start, and which clients make calls
    dir,            \* the namespace directory exists
    file,           \* n.yaml: the call that wrote it, Empty once truncated
    tagged,         \* n.yaml-deleted
    client,         \* the call a client is in
    ops,            \* calls made so far
    exits,          \* processes ended so far
    phase,          \* the cacher's reflector: "list", "watch", "run"
    watching,       \* the directory is on the fsnotify watch list
    queue,          \* fsnotify events not yet received
    held,           \* the event the watcher is sending, or removing for
    view            \* the cacher's copy

svars == <<setting, dir, file, tagged, client, ops, exits, phase, watching, queue, held, view>>
disk == <<dir, file, tagged>>
watcher == <<phase, watching, queue, held, view>>

None == 0
Empty == MaxOps + 1
CallId == 1..MaxOps
Content == {None, Empty} \cup CallId

Idle == [op |-> "idle"]
Running == [op : {"create", "update", "delete", "open", "rewrite"}, n : Names, id : CallId]
    \cup [op : {"write"}, n : Names, id : CallId, at : {"file", "tag", "gone"}]

DirEvent == [op |-> "Create", name |-> "dir"]
Event == [op : {"Create", "Write"}, name : {"file", "tag"}, n : Names]
NoEvent == [type |-> "none"]
Held == [type : {"Set", "Deleted", "Remove"}, n : Names, v : CallId]

STypeOK ==
    /\ dir \in BOOLEAN
    /\ file \in [Names -> Content] /\ tagged \in [Names -> Content]
    /\ client \in [Clients -> {Idle} \cup Running]
    /\ ops \in 0..MaxOps /\ exits \in 0..MaxExits
    /\ phase \in [Processes -> {"list", "watch", "run"}]
    /\ watching \in [Processes -> BOOLEAN]
    /\ queue \in [Processes -> Seq({DirEvent} \cup Event)]
    /\ held \in [Processes -> {NoEvent} \cup Held]
    /\ view \in [Processes -> [Names -> {None} \cup CallId]]

SInit ==
    /\ setting \in Settings
    /\ dir = setting.dir
    /\ file = [n \in Names |-> None] /\ tagged = file
    /\ client = [c \in Clients |-> Idle] /\ ops = 0 /\ exits = 0
    /\ phase = [p \in Processes |-> IF setting.started THEN "run" ELSE "list"]
    /\ watching = [p \in Processes |-> setting.started /\ dir]
    /\ queue = [p \in Processes |-> <<>>]
    /\ held = [p \in Processes |-> NoEvent]
    /\ view = [p \in Processes |-> file]

-----------------------------------------------------------------------------
(* The file system *)

(* fsnotify reports a change of an entry of a watched directory. *)
Notify(e) ==
    queue' = [p \in Processes |-> IF watching[p] THEN Append(queue[p], e) ELSE queue[p]]

On(op, name, n) == [op |-> op, name |-> name, n |-> n]

(* An open file of object n, called `from' until now, has become `to'. *)
Moved(f, n, from, to) ==
    [c \in Clients |-> IF f[c].op = "write" /\ f[c].n = n /\ f[c].at = from
                         THEN [f[c] EXCEPT !.at = to] ELSE f[c]]

-----------------------------------------------------------------------------
(* fileStorage *)

(* Does the codec make an object of what the file holds? *)
Decodes(v) == v \notin {None, Empty}

Goto(c, op) == client' = [client EXCEPT ![c].op = op]
Return(c) == client' = [client EXCEPT ![c] = Idle]

Call(c, op) ==
    /\ c \in setting.callers /\ client[c] = Idle /\ ops < MaxOps
    /\ ops' = ops + 1
    /\ \E n \in Names : client' = [client EXCEPT ![c] = [op |-> op, n |-> n, id |-> ops']]
    /\ UNCHANGED <<disk, exits, watcher>>

(* Create makes the namespace directory when there is none. *)
Create(c) ==
    /\ client[c].op = "create"
    /\ Goto(c, "open")
    /\ dir' = TRUE
    /\ queue' = [p \in Processes |->
                    IF ~dir /\ phase[p] = "run" THEN Append(queue[p], DirEvent) ELSE queue[p]]
    /\ UNCHANGED <<file, tagged, ops, exits, phase, watching, held, view>>

(* cachedExistingObject, or what Get reads and can decode *)
Existing(c, n) == view[Home[c]][n] # None \/ Decodes(file[n])

(* GuaranteedUpdate up to the WriteFile: the object it updates is the      *)
(* cacher's copy when there is one.                                        *)
GuaranteedUpdate(c) ==
    /\ client[c].op = "update"
    /\ IF Existing(c, client[c].n) THEN Goto(c, "rewrite") ELSE Return(c)
    /\ UNCHANGED <<disk, ops, exits, watcher>>

(* os.WriteFile: open truncates the file or makes a new one. *)
Open(c) ==
    /\ client[c].op \in {"open", "rewrite"}
    /\ LET n == client[c].n IN
       /\ client' = [client EXCEPT ![c] = [op |-> "write", n |-> n, id |-> @.id, at |-> "file"]]
       /\ file' = [file EXCEPT ![n] = Empty]
       /\ Notify(On(IF file[n] = None THEN "Create" ELSE "Write", "file", n))
    /\ UNCHANGED <<dir, tagged, ops, exits, phase, watching, held, view>>

(* os.WriteFile: the data goes to the open file, whatever its name now. *)
Write(c) ==
    /\ client[c].op = "write"
    /\ LET w == client[c] IN
       /\ file' = IF w.at = "file" THEN [file EXCEPT ![w.n] = w.id] ELSE file
       /\ tagged' = IF w.at = "tag" THEN [tagged EXCEPT ![w.n] = w.id] ELSE tagged
       /\ IF w.at = "gone" THEN UNCHANGED queue ELSE Notify(On("Write", w.at, w.n))
    /\ Return(c)
    /\ UNCHANGED <<dir, ops, exits, phase, watching, held, view>>

(* Delete: an object neither cached nor readable, or a file that is no     *)
(* longer there, is an error; otherwise the file gets the tagged name.     *)
Delete(c) ==
    /\ client[c].op = "delete"
    /\ LET n == client[c].n IN
       \/ /\ ~Existing(c, n) \/ file[n] = None
          /\ Return(c)
          /\ UNCHANGED <<disk, queue>>
       \/ /\ Existing(c, n) /\ file[n] # None
          /\ client' = [Moved(Moved(client, n, "tag", "gone"), n, "file", "tag") EXCEPT ![c] = Idle]
          /\ tagged' = [tagged EXCEPT ![n] = file[n]]
          /\ file' = [file EXCEPT ![n] = None]
          /\ Notify(On("Create", "tag", n))
          /\ UNCHANGED dir
    /\ UNCHANGED <<ops, exits, phase, watching, held, view>>

-----------------------------------------------------------------------------
(* fileWatcher, and the reflector that starts it *)

(* GetList of all namespaces fails on a file it cannot decode. *)
GetList(p) ==
    /\ phase[p] = "list"
    /\ \A n \in Names : file[n] = None \/ Decodes(file[n])
    /\ view' = [view EXCEPT ![p] = file]
    /\ phase' = [phase EXCEPT ![p] = "watch"]
    /\ UNCHANGED <<disk, client, ops, exits, watching, queue, held>>

(* newFileWatcher *)
Watch(p) ==
    /\ phase[p] = "watch"
    /\ phase' = [phase EXCEPT ![p] = "run"]
    /\ watching' = [watching EXCEPT ![p] = dir]
    /\ UNCHANGED <<disk, client, ops, exits, queue, held, view>>

(* What watchFile sends for an event on a file that holds v. *)
Result(e, v) ==
    IF e.op = "Create" /\ e.name = "tag"
      THEN [type |-> "Deleted", n |-> e.n, v |-> v]
      ELSE [type |-> "Set", n |-> e.n, v |-> v]

(* Mutant: a Write is taken for the echo of the Create and passed over. *)
Receive_createsOnly(p) ==
    /\ phase[p] = "run" /\ held[p] = NoEvent /\ queue[p] # <<>>
    /\ queue' = [queue EXCEPT ![p] = Tail(@)]
    /\ LET e == Head(queue[p]) IN
       \/ /\ e = DirEvent
          /\ watching' = [watching EXCEPT ![p] = TRUE]
          /\ UNCHANGED held
       \/ /\ e # DirEvent
          /\ LET v == IF e.name = "tag" THEN tagged[e.n] ELSE file[e.n] IN
             held' = IF Decodes(v) /\ e.op = "Create"
                       THEN [held EXCEPT ![p] = Result(e, v)] ELSE held
          /\ UNCHANGED watching
    /\ UNCHANGED <<disk, client, ops, exits, phase, view>>

(* watch receives an event: a directory goes on the watch list, a file is  *)
(* read as it is now, one that is gone or does not decode is passed over.  *)
Receive(p) ==
    /\ phase[p] = "run" /\ held[p] = NoEvent /\ queue[p] # <<>>
    /\ queue' = [queue EXCEPT ![p] = Tail(@)]
    /\ LET e == Head(queue[p]) IN
       \/ /\ e = DirEvent
          /\ watching' = [watching EXCEPT ![p] = TRUE]
          /\ UNCHANGED held
       \/ /\ e # DirEvent
          /\ LET v == IF e.name = "tag" THEN tagged[e.n] ELSE file[e.n] IN
             held' = IF Decodes(v) THEN [held EXCEPT ![p] = Result(e, v)] ELSE held
          /\ UNCHANGED watching
    /\ UNCHANGED <<disk, client, ops, exits, phase, view>>

(* Mutant: the tagged file is left to the Remove of another event. *)
Send_keeps(p) ==
    /\ held[p].type \in {"Set", "Deleted"}
    /\ LET h == held[p] IN
       view' = [view EXCEPT ![p][h.n] = IF h.type = "Set" THEN h.v ELSE None]
    /\ held' = [held EXCEPT ![p] = NoEvent]
    /\ UNCHANGED <<disk, client, ops, exits, phase, watching, queue>>

(* The consumer takes the event from the unbuffered channel. *)
Send(p) ==
    /\ held[p].type \in {"Set", "Deleted"}
    /\ LET h == held[p] IN
       /\ view' = [view EXCEPT ![p][h.n] = IF h.type = "Set" THEN h.v ELSE None]
       /\ held' = [held EXCEPT ![p] =
                      IF h.type = "Set" THEN NoEvent ELSE [h EXCEPT !.type = "Remove"]]
    /\ UNCHANGED <<disk, client, ops, exits, phase, watching, queue>>

(* Mutant: the file is removed while Deleted waits for the consumer. *)
Remove_first(p) ==
    /\ held[p].type \in {"Deleted", "Remove"}
    /\ tagged[held[p].n] # None
    /\ tagged' = [tagged EXCEPT ![held[p].n] = None]
    /\ client' = Moved(client, held[p].n, "tag", "gone")
    /\ UNCHANGED <<dir, file, ops, exits, phase, watching, queue, held, view>>

(* os.Remove of the tagged file; that it is gone already is only logged. *)
Remove(p) ==
    /\ held[p].type = "Remove"
    /\ tagged' = [tagged EXCEPT ![held[p].n] = None]
    /\ client' = Moved(client, held[p].n, "tag", "gone")
    /\ held' = [held EXCEPT ![p] = NoEvent]
    /\ UNCHANGED <<dir, file, ops, exits, phase, watching, queue, view>>

-----------------------------------------------------------------------------
(* A kk process ends, at the end of its playbook or in the middle of a     *)
(* call, and the next command starts another on the same directory.        *)
Exit(p) ==
    /\ exits < MaxExits
    /\ exits' = exits + 1
    /\ client' = [c \in Clients |-> IF Home[c] = p THEN Idle ELSE client[c]]
    /\ phase' = [phase EXCEPT ![p] = "list"]
    /\ watching' = [watching EXCEPT ![p] = FALSE]
    /\ queue' = [queue EXCEPT ![p] = <<>>]
    /\ held' = [held EXCEPT ![p] = NoEvent]
    /\ view' = [view EXCEPT ![p] = [n \in Names |-> None]]
    /\ UNCHANGED <<disk, ops>>

-----------------------------------------------------------------------------
Storage(c) == Create(c) \/ GuaranteedUpdate(c) \/ Open(c) \/ Write(c) \/ Delete(c)

Watcher(p) == GetList(p) \/ Watch(p) \/ Receive(p) \/ Send(p) \/ Remove(p)

SNext ==
    /\ \/ \E c \in Clients : Storage(c) \/ \E op \in {"create", "update", "delete"} : Call(c, op)
       \/ \E p \in Processes : Watcher(p) \/ Exit(p)
    /\ UNCHANGED setting

(* A call that has begun goes on, and so does a watcher's goroutine. *)
SFairness ==
    /\ \A c \in Clients : WF_svars(Storage(c) /\ UNCHANGED setting)
    /\ \A p \in Processes : WF_svars(Watcher(p) /\ UNCHANGED setting)

SSpec == SInit /\ [][SNext]_svars /\ SFairness

-----------------------------------------------------------------------------
(* Properties *)

(* "After delete event is handled, the file will be deleted from disk":    *)
(* the tagged file of an object is never removed while a watcher's         *)
(* consumer still shows the object, so no consumer misses a deletion.      *)
RemovedAfterHandled ==
    [][\A n \in Names : tagged[n] # None /\ tagged'[n] = None
          => \A p \in Processes : view'[p][n] = None]_svars

(* The watcher ran before the first call, on the directory of the          *)
(* namespace, has not been cut off, and calls do not overlap.              *)
Undisturbed ==
    /\ setting.dir /\ setting.started /\ exits = 0
    /\ \A c, d \in setting.callers : c = d

(* "It will actual delete by watcher": once calls end, no tagged file is   *)
(* left in the directory by an undisturbed watcher (Delete, watchFile).    *)
TagsAreRemoved == <>[](Undisturbed => \A n \in Names : tagged[n] = None)

(* "The watcher contains all resources in the namespace": once calls end,  *)
(* what an undisturbed watcher's events built up is what the files hold,   *)
(* although each event shows the file as it was when the event was read.   *)
ViewConverges == <>[](Undisturbed => \A p \in Processes : view[p] = file)
=============================================================================
