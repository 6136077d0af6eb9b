-------------------------------- MODULE Watcher --------------------------------
(***************************************************************************)
(* The PipeWire device watcher of audio_capture/pipewire.rs and what it    *)
(* shares with the engine thread: the session info it reads, the command   *)
(* channel it sends Reconnect on, and the device cache both write.         *)
(*                                                                         *)
(* The graph of nodes is PipeWire's: nodes come and go, each with a serial *)
(* of its own, and the registry tells the watcher in order, with a delay.  *)
(* Of the engine this module has the steps that touch what is shared:      *)
(* Engine has the rest.                                                    *)
(***************************************************************************)
EXTENDS Naturals, Sequences, FiniteSets, SequencesExt

CONSTANTS Node,          \* serials
          Type,          \* node -> "application", "input" or "monitor"
          NoNode,
          MaxCommands,   \* bound: commands of the UI
          MaxQueue       \* bound: commands waiting in the channel

ASSUME WatcherAssumption ==
  /\ NoNode \notin Node /\ Node # {}
  /\ Type \in [Node -> {"application", "input", "monitor"}]
  /\ MaxCommands \in Nat /\ MaxQueue \in Nat

Monitors == {n \in Node : Type[n] = "monitor"}

VARIABLES
  graph,         \* external: the nodes that exist
  gone,          \* external: the nodes that are gone for good
  default_sink,  \* external: the sink the metadata names, a monitor here, or none
  events,        \* registry events on their way to the watcher: [type, node]
  devices,       \* the watcher's map
  devices_cache, \* last_devices, node -> the type it was listed with
  queue, sent,   \* cmd_rx, and UI commands so far
  epc,           \* the engine thread
  target,        \* the device of the command being handled
  found,         \* what enumerate_devices has seen, while it runs
  info,          \* active_session_info.device_id
  active,        \* a session is active (active_buffer)
  stream,        \* the capture stream: [device, type]
  told           \* history: the session's device when a Reconnect last failed, as the user was told

external == <<graph, gone, default_sink>>
watcher == <<events, devices>>
channel == <<queue, sent>>
engine == <<epc, target, found, info, active, stream, told>>
vars == <<external, watcher, devices_cache, channel, engine>>

NoStream == [device |-> NoNode, type |-> "none"]
Command(type, device) == [type |-> type, device |-> device]

-------------------------------------------------------------------------------
(***************************************************************************)
(* PipeWire.                                                               *)
(***************************************************************************)
NodeAppears ==
  \E n \in Node \ (graph \cup gone) :
    /\ graph' = graph \cup {n}
    /\ events' = Append(events, [type |-> "add", node |-> n])
    /\ found' \in {found, IF epc \in {"listing", "choosing", "refreshing"}
                          THEN found \cup {n} ELSE found}
    /\ default_sink' = IF default_sink = NoNode /\ n \in Monitors THEN n ELSE default_sink
    /\ UNCHANGED <<gone, devices, devices_cache, channel, epc, target, info, active, stream, told>>

\* Any node may go.  Another sink, if there is one, becomes the default.
NodeVanishes ==
  \E n \in graph :
    /\ graph' = graph \ {n} /\ gone' = gone \cup {n}
    /\ events' = Append(events, [type |-> "remove", node |-> n])
    /\ IF n # default_sink THEN UNCHANGED default_sink
       ELSE IF Monitors \cap graph' = {} THEN default_sink' = NoNode
       ELSE default_sink' \in Monitors \cap graph'
    /\ UNCHANGED <<devices, devices_cache, channel, engine>>

-------------------------------------------------------------------------------
(***************************************************************************)
(* The watcher's callbacks.                                                *)
(***************************************************************************)
\* emit_devices_changed: the cache and the UI get the map.
Emit == devices_cache' = devices'

OnGlobal ==
  /\ events # <<>> /\ Head(events).type = "add"
  /\ events' = Tail(events)
  /\ devices' = devices \cup {Head(events).node}
  /\ Emit
  /\ UNCHANGED <<external, channel, engine>>

\* The monitor to fall back to: default_sink_name is never set, so no node's name equals it
\* and any monitor of the map may be the one.
Fallbacks == Monitors \cap devices'

OnGlobalRemoveDefaultOnly ==                               \* mutant: no `or_else`
  /\ events # <<>> /\ Head(events).type = "remove"
  /\ events' = Tail(events)
  /\ devices' = devices \ {Head(events).node}
  /\ UNCHANGED queue
  /\ Emit
  /\ UNCHANGED <<external, sent, engine>>
OnGlobalRemoveOwnOnly ==                                   \* mutant: other nodes stay in the map
  /\ events # <<>> /\ Head(events).type = "remove"
  /\ events' = Tail(events)
  /\ LET n == Head(events).node
     IN  IF info = n /\ n \in devices
         THEN /\ devices' = devices \ {n}
              /\ IF Fallbacks # {}
                 THEN \E m \in Fallbacks : queue' = Append(queue, Command("reconnect", m))
                 ELSE UNCHANGED queue
         ELSE UNCHANGED <<devices, queue>>
  /\ Emit
  /\ UNCHANGED <<external, sent, engine>>
\* The map, then the fallback if the node is the session's, then the list.
OnGlobalRemove ==
  /\ events # <<>> /\ Head(events).type = "remove"
  /\ events' = Tail(events)
  /\ LET n == Head(events).node
     IN  /\ devices' = devices \ {n}
         /\ IF n \in devices /\ info = n /\ Fallbacks # {}
            THEN \E m \in Fallbacks : queue' = Append(queue, Command("reconnect", m))
            ELSE UNCHANGED queue
  /\ Emit
  /\ UNCHANGED <<external, sent, engine>>

-------------------------------------------------------------------------------
(***************************************************************************)
(* The engine thread.                                                      *)
(***************************************************************************)
UiSends ==
  /\ sent < MaxCommands /\ Len(queue) < MaxQueue
  /\ sent' = sent + 1
  /\ \E c \in {Command("start", n) : n \in devices} \cup
              {Command("stop", NoNode), Command("list", NoNode)} :
       queue' = Append(queue, c)
  /\ UNCHANGED <<external, watcher, devices_cache, engine>>

Next1 == Head(queue)
Pop == epc = "idle" /\ queue # <<>> /\ queue' = Tail(queue) /\ UNCHANGED sent

\* enumerate_devices collects for most of a second, and then writes the cache; after an error
\* or a timeout it does not.
Enumerate == found' = graph
Enumerated == \/ devices_cache' = found
              \/ UNCHANGED devices_cache

HandleList ==
  /\ Pop /\ Next1.type = "list"
  /\ epc' = "listing" /\ Enumerate
  /\ UNCHANGED <<external, watcher, devices_cache, target, info, active, stream, told>>

Listed ==
  /\ epc = "listing" /\ epc' = "idle" /\ Enumerated /\ found' = {}
  /\ UNCHANGED <<external, watcher, channel, target, info, active, stream, told>>

\* stop_active_session: the stream goes, the thread is joined, then the info is cleared.
HandleStartOrStop ==
  /\ Pop /\ Next1.type \in {"start", "stop"}
  /\ target' = Next1.device
  /\ epc' = "joining" /\ stream' = NoStream
  /\ UNCHANGED <<external, watcher, devices_cache, found, info, active, told>>

Joined ==
  /\ epc = "joining"
  /\ active' = FALSE /\ info' = NoNode
  /\ IF target = NoNode THEN epc' = "idle" /\ UNCHANGED found
                        ELSE epc' = "choosing" /\ Enumerate
  /\ UNCHANGED <<external, watcher, devices_cache, channel, target, stream, told>>

\* The device info has been looked up; the stream starts, with the type the cache has for the
\* device, or as an application.
TypeFor(n, cache) == IF n \in cache THEN Type[n] ELSE "application"
StartStream ==
  /\ epc = "choosing" /\ epc' = "started" /\ Enumerated /\ found' = {}
  /\ stream' = [device |-> target, type |-> TypeFor(target, devices_cache')]
  /\ UNCHANGED <<external, watcher, channel, target, info, active, told>>

\* The backend cannot start it: there is no session.
StartFails ==
  /\ epc = "choosing" /\ epc' = "idle" /\ Enumerated /\ found' = {}
  /\ UNCHANGED <<external, watcher, channel, target, info, active, stream, told>>

SessionStarted ==
  /\ epc = "started" /\ epc' = "idle"
  /\ active' = TRUE /\ info' = target
  /\ UNCHANGED <<external, watcher, devices_cache, channel, target, found, stream, told>>

HandleReconnectAlways ==                                   \* mutant: no active-session check
  /\ Pop /\ Next1.type = "reconnect"
  /\ stream' = [device |-> Next1.device, type |-> TypeFor(Next1.device, devices_cache)]
  /\ target' = Next1.device
  /\ epc' = "refreshing" /\ Enumerate
  /\ UNCHANGED <<external, watcher, devices_cache, info, active, told>>
\* reconnect_stream: ignored without a session; otherwise the stream is swapped at once and
\* the info follows an enumeration.  When the new stream does not start the session has none,
\* the info keeps the old device, and the user is told.
HandleReconnect ==
  /\ Pop /\ Next1.type = "reconnect"
  /\ \/ /\ active
        /\ stream' = [device |-> Next1.device, type |-> TypeFor(Next1.device, devices_cache)]
        /\ target' = Next1.device
        /\ epc' = "refreshing" /\ Enumerate
        /\ UNCHANGED told
     \/ /\ active
        /\ stream' = NoStream /\ told' = info
        /\ UNCHANGED <<target, epc, found>>
     \/ /\ ~active
        /\ UNCHANGED <<stream, target, epc, found, told>>
  /\ UNCHANGED <<external, watcher, devices_cache, info, active>>

Reconnected ==
  /\ epc = "refreshing" /\ epc' = "idle" /\ Enumerated /\ found' = {}
  /\ info' = target
  /\ UNCHANGED <<external, watcher, channel, target, active, stream, told>>

Init ==
  /\ default_sink \in Monitors
  /\ graph = {default_sink} /\ gone = {}
  /\ events = <<[type |-> "add", node |-> default_sink]>> /\ devices = {} /\ devices_cache = {}
  /\ queue = <<>> /\ sent = 0
  /\ epc = "idle" /\ target = NoNode /\ found = {} /\ info = NoNode /\ active = FALSE
  /\ stream = NoStream /\ told = NoNode

WatcherNext == OnGlobal \/ OnGlobalRemove
EngineNext == HandleList \/ Listed \/ HandleStartOrStop \/ Joined \/ StartStream
              \/ StartFails \/ SessionStarted \/ HandleReconnect \/ Reconnected

Next == NodeAppears \/ NodeVanishes \/ UiSends \/ WatcherNext \/ EngineNext

Spec == Init /\ [][Next]_vars

\* Both threads run; PipeWire and the user owe nothing.
FairSpec == Spec /\ WF_vars(WatcherNext) /\ WF_vars(EngineNext)

-------------------------------------------------------------------------------
TypeOK ==
  /\ graph \subseteq Node /\ gone \subseteq Node /\ default_sink \in graph \cup {NoNode}
  /\ events \in Seq([type : {"add", "remove"}, node : Node])
  /\ devices \subseteq Node /\ devices_cache \subseteq Node /\ found \subseteq Node
  /\ queue \in Seq([type : {"start", "stop", "list", "reconnect"}, device : Node \cup {NoNode}])
  /\ epc \in {"idle", "listing", "joining", "choosing", "started", "refreshing"}
  /\ target \in Node \cup {NoNode} /\ info \in Node \cup {NoNode} /\ active = (info # NoNode)
  /\ stream \in [device : Node \cup {NoNode}, type : {"none", "application", "input", "monitor"}]
  /\ told \in Node \cup {NoNode}

\* A fallback never restarts a session the user has stopped: Reconnect finds no session.
StoppedStaysStopped == stream # NoStream => active \/ epc = "started"

\* The device list the watcher publishes differs from the graph by the events on their way only.
Pending(type) == {events[i].node : i \in {j \in 1..Len(events) : events[j].type = type}}
MapTracksGraph == TypeOK /\ graph = (devices \cup Pending("add")) \ Pending("remove")

\* A session that is known to be on a node does not silently stay there when the watcher takes
\* the loss of the node and knows a monitor to fall back to: it moves, or ends, or the user is
\* told that the Reconnect failed.  Without a monitor nothing is sent, and a Reconnect that
\* fails leaves the lost device in the info (pipewire.rs:739, audio_engine.rs:499-502).
Lost(n) ==
  /\ info = n /\ n \in devices
  /\ events # <<>> /\ Head(events) = [type |-> "remove", node |-> n]
LossHandled == \A n \in Node :
  Lost(n) /\ (Monitors \cap devices) \ {n} # {} ~> info # n \/ told = n

\* "If the active stream disappeared, fall back to default monitor" (pipewire.rs:719): the
\* monitor is that of the default sink, when the watcher knows it.
FallsBackToDefault ==
  [][\A n \in Node : info = n /\ Len(queue') > Len(queue) /\ Last(queue').type = "reconnect"
       => (default_sink \in devices' => Last(queue').device = default_sink)]_vars
===============================================================================
