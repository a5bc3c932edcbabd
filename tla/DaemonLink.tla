------------------------------- MODULE DaemonLink -------------------------------
(***************************************************************************)
(* The processes of one remote machine, seen from both ends of the link:   *)
(* the registry of the server keeps an entry per process it had started,   *)
(* the daemon on the machine keeps the children and buffers what it cannot *)
(* send.  The connection breaks without either end knowing at once; the    *)
(* daemon connects again, the new connection supersedes the old one.       *)
(* Server and daemon restart on their own; a restarted server attaches to  *)
(* the processes of the sessions it had saved.                             *)
(***************************************************************************)
EXTENDS Naturals, Sequences, SequencesExt

CONSTANTS
  Proc,         \* processes of stream sessions
  BufferLimit,  \* maxBufferedMessages
  MaxOut,       \* bound: output messages of a process, before and after its end
  MaxConns,     \* bound: connections; the last one does not break
  MaxStops      \* bound: restarts of the server and stops of the daemon

ASSUME DaemonLinkAssumption ==
  /\ IsFiniteSet(Proc) /\ BufferLimit \in Nat \ {0} /\ MaxOut \in Nat
  /\ MaxConns \in Nat \ {0} /\ MaxStops \in Nat

VARIABLES
  entry,    \* processes of the registry: "none", "open", "gone", or "lost" in a restart
  saved,    \* the processes of the persisted sessions
  ready,    \* restorePersistedSessionsReady
  pairing,  \* of the machine: "valid", "expired", or "revoked"
  srv,      \* the server's connection: "none", "up", or "stale" when its peer is gone
  ws,       \* activeWs of the daemon: "none", "up", or "dead" when its peer is gone
  up, down, \* messages under way to the server and to the daemon
  hello,    \* hello messages waiting for the health of the providers
  buffer,   \* bufferedClientMessages
  child,    \* children of the daemon
  out,      \* output messages each child has produced before its end
  late,     \* and after it: its pipes may outlive it
  conns, stops,
  heard,    \* history: what each process of the registry has emitted
  lost,     \* history: messages that reached nobody
  unknown,  \* history: saved processes with a message that found no entry yet
  overtook, \* history: processes with a message sent past the buffer
  phantom   \* history: processes whose spawn was never sent

server  == <<entry, saved, ready, pairing>>
family  == <<child, out, late>>
daemon  == <<hello, buffer, family>>
link    == <<srv, ws, up, down>>
bounds  == <<conns, stops>>
history == <<heard, lost, unknown, overtook, phantom>>
vars    == <<server, daemon, link, bounds, history>>

Msg(p, t, n) == [of |-> p, type |-> t, n |-> n]
Out(p, n)  == Msg(p, "out", n)    \* "stdout" and "stderr"
Late(p, n) == Msg(p, "late", n)   \* the same, produced after the end
End(p)     == Msg(p, "end", 0)    \* "exit", or "error" of a spawn that failed
Start(p)   == Msg(p, "spawn", 0)
Kill(p)    == Msg(p, "kill", 0)

Live  == {"running", "signalled"}
Ended == {"exited", "ended"}      \* reported; the pipes of an "exited" child are open

Init ==
  /\ entry = [p \in Proc |-> "none"] /\ saved = {} /\ ready = TRUE /\ pairing = "valid"
  /\ srv = "none" /\ ws = "none" /\ up = <<>> /\ down = <<>>
  /\ hello = 0 /\ buffer = <<>>
  /\ child = [p \in Proc |-> "none"] /\ out = [p \in Proc |-> 0]
  /\ late = [p \in Proc |-> 0]
  /\ conns = 0 /\ stops = 0
  /\ heard = [p \in Proc |-> <<>>] /\ lost = {} /\ unknown = {}
  /\ overtook = {} /\ phantom = {}

--------------------------------------------------------------------------------
(***************************************************************************)
(* The registry of the server                                              *)
(***************************************************************************)

\* MachineDaemonRegistry.send; without a connection it throws.
SendDown(m) ==
  /\ srv # "none"
  /\ IF srv = "up" THEN down' = Append(down, m) /\ UNCHANGED lost
                   ELSE lost' = lost \cup {m} /\ UNCHANGED down

\* spawnProcess registers the process, then sends; when send throws the entry stays.
Spawn(p) ==
  /\ ready /\ entry[p] = "none"
  /\ entry' = [entry EXCEPT ![p] = "open"]
  /\ IF srv = "none"
       THEN phantom' = phantom \cup {p} /\ UNCHANGED <<down, lost>>
       ELSE SendDown(Start(p)) /\ UNCHANGED phantom
  /\ UNCHANGED <<saved, ready, pairing, daemon, srv, ws, up, bounds, heard, unknown, overtook>>

KillProcess(p) ==
  /\ entry[p] = "open" /\ Kill(p) \notin ToSet(down)
  /\ SendDown(Kill(p))
  /\ UNCHANGED <<server, daemon, srv, ws, up, bounds, heard, unknown, overtook, phantom>>

\* The sessions are written; one whose spawn threw does not exist.
Persist ==
  /\ ready
  /\ saved' = {p \in Proc : entry[p] = "open"} \ phantom
  /\ UNCHANGED <<entry, ready, pairing, daemon, link, bounds, history>>

\* Deviation from ServerNotices: any connection that closes takes the entry of
\* the machine's connection with it.
ServerForgets ==
  /\ srv # "none" /\ up = <<>>
  /\ srv' = "none"
  /\ UNCHANGED <<server, daemon, ws, up, down, bounds, history>>

\* A message of the current connection: an entry hears it; after its end the
\* process is forgotten; without an entry the message is ignored.
Receive ==
  /\ srv # "none" /\ up # <<>>
  /\ up' = Tail(up)
  /\ LET m == Head(up)  p == m.of IN
     IF entry[p] = "open"
       THEN /\ heard' = [heard EXCEPT ![p] = Append(@, m)]
            /\ entry' = IF m = End(p) THEN [entry EXCEPT ![p] = "gone"] ELSE entry
            /\ UNCHANGED <<lost, unknown>>
       ELSE /\ lost' = lost \cup {m}
            /\ unknown' = IF entry[p] = "lost" /\ p \in saved THEN unknown \cup {p} ELSE unknown
            /\ UNCHANGED <<heard, entry>>
  /\ UNCHANGED <<saved, ready, pairing, daemon, srv, ws, down, bounds, overtook, phantom>>

\* removeIfCurrent: the server learns that the connection has closed.
ServerNotices ==
  /\ srv = "stale" /\ up = <<>>
  /\ srv' = "none"
  /\ UNCHANGED <<server, daemon, ws, up, down, bounds, history>>

\* isDaemonPairingTokenExpired, from now on; an upgrade only looks.
Expire ==
  /\ pairing = "valid"
  /\ pairing' = "expired"
  /\ UNCHANGED <<entry, saved, ready, daemon, link, bounds, history>>

\* disconnect, when the pairing is revoked: kill what is open and forget it.
Disconnect ==
  /\ pairing # "revoked"
  /\ pairing' = "revoked"
  /\ LET open == {p \in Proc : entry[p] = "open"} IN
     /\ entry' = [p \in Proc |-> IF p \in open THEN "gone" ELSE entry[p]]
     /\ down' = IF srv = "up" THEN down \o SetToSeq({Kill(p) : p \in open}) ELSE down
     /\ lost' = lost \cup ToSet(up) \cup IF srv = "stale" THEN {Kill(p) : p \in open} ELSE {}
  /\ srv' = "none" /\ ws' = IF srv = "up" THEN "dead" ELSE ws
  /\ up' = <<>>
  /\ UNCHANGED <<saved, ready, daemon, bounds, heard, unknown, overtook, phantom>>

\* The server stops; its registry starts empty.
ServerStops ==
  /\ stops < MaxStops /\ conns < MaxConns
  /\ stops' = stops + 1
  /\ ready' = FALSE
  /\ entry' = [p \in Proc |-> IF entry[p] = "none" THEN "none" ELSE "lost"]
  /\ srv' = "none" /\ ws' = IF ws = "up" THEN "dead" ELSE ws
  /\ lost' = lost \cup ToSet(up) \cup ToSet(down)
  /\ up' = <<>> /\ down' = <<>>
  /\ UNCHANGED <<saved, pairing, daemon, conns, heard, unknown, overtook, phantom>>

\* restorePersistedSessions: attachProcess for each saved session that can be
\* restored.
Restore ==
  /\ ~ready
  /\ ready' = TRUE
  /\ \E restored \in SUBSET saved :
       entry' = [p \in Proc |-> IF entry[p] = "none" THEN "none"
                                ELSE IF p \in restored THEN "open" ELSE "gone"]
  /\ UNCHANGED <<saved, pairing, daemon, link, bounds, history>>

--------------------------------------------------------------------------------
(***************************************************************************)
(* The daemon                                                              *)
(***************************************************************************)

\* sendToServer: directly when the socket is open, past the messages still in
\* the buffer; else into the buffer, whose oldest message makes room.
SendToServer(m) ==
  IF ws # "none"
    THEN /\ IF ws = "up" THEN up' = Append(up, m) /\ UNCHANGED lost
                         ELSE lost' = lost \cup {m} /\ UNCHANGED up
         /\ overtook' = overtook \cup ({m.of} \cap {b.of : b \in ToSet(buffer)})
         /\ UNCHANGED buffer
    ELSE /\ buffer' = Append(IF Len(buffer) < BufferLimit THEN buffer ELSE Tail(buffer), m)
         /\ lost' = IF Len(buffer) < BufferLimit THEN lost ELSE lost \cup {Head(buffer)}
         /\ UNCHANGED <<up, overtook>>

\* Output goes on while a pipe is open, which may be after the end.
ChildOutput(p) ==
  /\ out[p] + late[p] < MaxOut
  /\ \/ /\ child[p] \in Live
        /\ out' = [out EXCEPT ![p] = @ + 1]
        /\ SendToServer(Out(p, out[p] + 1))
        /\ UNCHANGED late
     \/ /\ child[p] = "exited"
        /\ late' = [late EXCEPT ![p] = @ + 1]
        /\ SendToServer(Late(p, late[p] + 1))
        /\ UNCHANGED out
  /\ UNCHANGED <<server, srv, ws, down, hello, child, bounds, heard, unknown, phantom>>

\* Deviation from ChildEnds: an exit is not kept for a connection to come.
ChildEndsUnsent(p) ==
  /\ child[p] \in Live
  /\ child' = [child EXCEPT ![p] = "exited"]
  /\ IF ws = "up" THEN up' = Append(up, End(p)) ELSE UNCHANGED up
  /\ UNCHANGED <<server, srv, ws, down, hello, buffer, out, late, bounds, history>>

\* The tree of the child has stopped, or its start turns out to have failed.
\* The daemon forgets the child and leaves its pipes as they are.
ChildEnds(p) ==
  /\ child[p] \in Live
  /\ child' = [child EXCEPT ![p] = "exited"]
  /\ SendToServer(End(p))
  /\ UNCHANGED <<server, srv, ws, down, hello, out, late, bounds, heard, unknown, phantom>>

\* handleServerMessage; what follows a close is read before it.
DaemonReceives ==
  /\ ws # "none" /\ down # <<>>
  /\ down' = Tail(down)
  /\ LET m == Head(down)  p == m.of IN
     \/ /\ m = Start(p)
        /\ child' = [child EXCEPT ![p] = "running"]
        /\ UNCHANGED <<up, lost, buffer, overtook>>
     \/ /\ m = Start(p)                     \* handleSpawn throws
        /\ child' = [child EXCEPT ![p] = "ended"]
        /\ SendToServer(End(p))
     \/ /\ m = Kill(p)
        /\ child' = [child EXCEPT ![p] = IF @ = "running" THEN "signalled" ELSE @]
        /\ UNCHANGED <<up, lost, buffer, overtook>>
  /\ UNCHANGED <<server, srv, ws, hello, out, late, bounds, heard, unknown, phantom>>

\* Deviation from Connect: the upgrade does not wait for the restored sessions.
ConnectEarly ==
  /\ pairing = "valid" /\ ws = "none" /\ conns < MaxConns
  /\ conns' = conns + 1
  /\ ws' = "up" /\ srv' = "up"
  /\ lost' = lost \cup ToSet(up) /\ up' = <<>>
  /\ hello' = hello + 1
  /\ UNCHANGED <<server, down, buffer, family, stops, heard, unknown, overtook, phantom>>

\* connect, and handleUpgrade of the server, which waits for the restored
\* sessions; attach supersedes the connection before.
Connect ==
  /\ ready /\ pairing = "valid" /\ ws = "none" /\ conns < MaxConns
  /\ conns' = conns + 1
  /\ ws' = "up" /\ srv' = "up"
  /\ lost' = lost \cup ToSet(up) /\ up' = <<>>
  /\ hello' = hello + 1
  /\ UNCHANGED <<server, down, buffer, family, stops, heard, unknown, overtook, phantom>>

\* Deviation from Kept: a message taken out of the buffer is not put back.
KeptTail == IF ws = "none" /\ buffer # <<>> THEN Tail(buffer) ELSE <<>>

\* Deviation from Kept: what has been sent stays in the buffer.
KeptAll == buffer

\* What flushBufferedClientMessages leaves in the buffer.
Kept == IF ws = "none" THEN buffer ELSE <<>>

\* The health of the providers is known: hello is sent if the connection is
\* still the same, and the buffer is flushed in any case.  When a probe throws,
\* neither is done, and nothing tries again before the next connection.
HelloDone ==
  /\ hello > 0
  /\ hello' = hello - 1
  /\ \/ /\ buffer' = Kept
        /\ up' = IF ws = "up" THEN up \o buffer ELSE up
        /\ lost' = IF ws = "dead" THEN lost \cup ToSet(buffer) ELSE lost
     \/ UNCHANGED <<buffer, up, lost>>
  /\ UNCHANGED <<server, srv, ws, down, family, bounds, heard, unknown, overtook, phantom>>

\* markDisconnected; a connection is made again after reconnectDelayMs.
DaemonNotices ==
  /\ ws = "dead" /\ down = <<>>
  /\ ws' = "none"
  /\ UNCHANGED <<server, daemon, srv, up, down, bounds, history>>

\* The daemon stops, with its children; another one starts with none.
DaemonStops ==
  /\ stops < MaxStops
  /\ stops' = stops + 1
  /\ child' = [p \in Proc |-> IF child[p] \in Live THEN "dead"
                             ELSE IF child[p] = "exited" THEN "ended" ELSE child[p]]
  /\ lost' = lost \cup ToSet(buffer) \cup ToSet(down)
  /\ buffer' = <<>> /\ down' = <<>> /\ hello' = 0
  /\ ws' = "none" /\ srv' = IF srv = "up" THEN "stale" ELSE srv
  /\ UNCHANGED <<server, up, out, late, conns, heard, unknown, overtook, phantom>>

--------------------------------------------------------------------------------
\* The connection breaks, with what is under way; neither end knows yet.
Break ==
  /\ srv = "up" /\ conns < MaxConns
  /\ srv' = "stale" /\ ws' = "dead"
  /\ lost' = lost \cup ToSet(up) \cup ToSet(down)
  /\ up' = <<>> /\ down' = <<>>
  /\ UNCHANGED <<server, daemon, bounds, heard, unknown, overtook, phantom>>

Next ==
  \/ \E p \in Proc : Spawn(p) \/ KillProcess(p) \/ ChildOutput(p) \/ ChildEnds(p)
  \/ Persist \/ Receive \/ ServerNotices \/ Expire \/ Disconnect \/ ServerStops \/ Restore
  \/ DaemonReceives \/ Connect \/ HelloDone \/ DaemonNotices \/ DaemonStops
  \/ Break

Spec == Init /\ [][Next]_vars

\* The sockets deliver, timers fire, probes of the providers end, a restart ends;
\* nothing makes a child end.
FairSpec ==
  Spec /\ WF_vars(Receive) /\ WF_vars(DaemonReceives) /\ WF_vars(HelloDone)
       /\ WF_vars(DaemonNotices) /\ WF_vars(Connect) /\ WF_vars(Restore)

--------------------------------------------------------------------------------
(***************************************************************************)
(* Properties                                                              *)
(***************************************************************************)

Data(p)    == {Out(p, n) : n \in 1..MaxOut} \cup {Late(p, n) : n \in 1..MaxOut} \cup {End(p)}
Message    == UNION {Data(p) \cup {Start(p), Kill(p)} : p \in Proc}
UnderWay   == ToSet(buffer) \cup ToSet(up)
Produced(p) == {Out(p, n) : n \in 1..out[p]} \cup {Late(p, n) : n \in 1..late[p]}
                 \cup (IF child[p] \in Ended THEN {End(p)} ELSE {})

\* The order in which a child produces its messages.
Rank(m)      == CASE m.type = "out" -> 0 [] m.type = "end" -> 1 [] m.type = "late" -> 2
Before(a, b) == Rank(a) < Rank(b) \/ (a.type = b.type /\ a.n < b.n)

\* The hello of the connection has failed, and what waits will wait for another.
Mute == ws # "none" /\ hello = 0 /\ buffer # <<>>

\* The types, and how the two ends agree: a connection that is up for one end is
\* up for the other, messages are under way only where someone may read them.
TypeOK ==
  /\ entry \in [Proc -> {"none", "open", "gone", "lost"}] /\ saved \subseteq Proc
  /\ ready \in BOOLEAN /\ pairing \in {"valid", "expired", "revoked"}
  /\ srv \in {"none", "up", "stale"} /\ ws \in {"none", "up", "dead"}
  /\ srv = "up" <=> ws = "up"
  /\ ToSet(up) \cup ToSet(down) \cup ToSet(buffer) \cup lost \subseteq Message
  /\ (up # <<>> => srv # "none") /\ (down # <<>> => ws # "none")
  /\ hello \in 0..MaxConns /\ conns \in 0..MaxConns /\ stops \in 0..MaxStops
  /\ Len(buffer) <= BufferLimit
  /\ child \in [Proc -> Live \cup Ended \cup {"none", "dead"}]
  /\ out \in [Proc -> 0..MaxOut] /\ late \in [Proc -> 0..MaxOut]
  /\ \A p \in Proc : ToSet(heard[p]) \subseteq Data(p)
  /\ unknown \cup overtook \cup phantom \subseteq Proc

\* Whatever breaks, a child's messages, its late output included, are each heard at
\* most once, and in the order it produced them unless one was sent while others
\* waited in the buffer for the hello of a new connection.
HeardOnceInOrder ==
  \A p \in Proc : \A i, j \in 1..Len(heard[p]) : i < j =>
    /\ heard[p][i] # heard[p][j]
    /\ p \in overtook \/ Before(heard[p][i], heard[p][j])

\* A message of a child is heard, waits, is under way, or was lost with a
\* connection, a stop, the limit of the buffer or an entry that was gone: no
\* reconnection drops one.  And what a daemon kept for a restarted server never
\* reaches it before the saved session it belongs to is restored.
Accounted ==
  /\ \A p \in Proc : Produced(p) \subseteq ToSet(heard[p]) \cup UnderWay \cup lost
  /\ unknown = {}

\* An entry of the registry stands for a process that is to start, runs, or
\* whose end is still to be heard.  The ways to keep an entry for nothing are a
\* spawn that threw or was lost, an end that was lost or had been heard before a
\* restart, and a daemon that stopped.
EntryIsLive ==
  \A p \in Proc : entry[p] = "open" =>
    \/ Start(p) \in ToSet(down) \/ child[p] \in Live \/ End(p) \in UnderWay
    \/ p \in phantom \/ {Start(p), End(p)} \cap (lost \cup ToSet(heard[p])) # {}
    \/ child[p] = "dead"

\* The end of a child is heard or lost, however often the connection breaks:
\* only a pairing that has expired or is revoked, or a connection that stays and
\* whose hello has failed, keeps it in the buffer.
EndArrives ==
  <>[]~Mute =>
    \A p \in Proc : child[p] \in Ended ~> End(p) \in lost \cup ToSet(heard[p]) \/ pairing # "valid"
================================================================================
