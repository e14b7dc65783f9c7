-------------------------------- MODULE Graph --------------------------------
(***************************************************************************)
(* The filter graph around this program: which AssFilters get into it, and *)
(* which of them shows its subtitles.                                      *)
(*                                                                         *)
(* The graph builder renders the pins of the splitter one after another.   *)
(* It tries the input pins in the graph first, then the filters registered *)
(* for the pin's types: the auto loader, which has the highest merit and   *)
(* takes any type, then an AssFilter.  The auto loader accepts nothing; it *)
(* adds an AssFilter for external subtitles when the media has none.  The  *)
(* application may put filters into the graph, start and stop it and       *)
(* remove filters.                                                         *)
(***************************************************************************)
EXTENDS PinConnection, FiniteSets

CONSTANTS
  Loader,  \* the auto loader's pin
  Media,   \* the media: for every output pin, the types it offers
  Keys     \* the states of DisableAutoLoad in the registry

Filters == Inputs \ {Loader}

ASSUME LoaderAssumption == Loader \in Inputs
ASSUME MediaAssumption == Media \subseteq [Outputs -> Seq(Types)]
\* "none": there is no key, "absent": the key has no such value.
ASSUME KeysAssumption == Keys \subseteq {"none", "absent", "off", "on"}

\* What the code tells apart of a media type: "text" is UTF8 text with a format
\* that is not FORMAT_SubtitleInfo, "video" is video or audio, "data" is none of
\* the three.
Seen == {"ass", "utf8", "text", "vobsub"}
Accepted == {"ass", "ssa", "utf8", "vobsub"}
Registered == {"ass", "ssa", "utf8", "text", "vobsub"}
Streams == Registered \cup {"video"}

VARIABLES
  fileSource,  \* the splitter is the file's source filter
  key,         \* DisableAutoLoad
  inGraph,     \* the pins of the auto loader and the AssFilters in the graph
  loaded,      \* m_loaded of the auto loader
  external,    \* m_bExternalFile of an AssFilter
  paused,      \* m_bNotFirstPause
  sink,        \* m_consumer is set
  provider,    \* the AssFilter that is connected to the consumer
  consumer,    \* a consumer is in the graph
  fileFound,   \* there is an external file
  added,       \* the pin of the filter that was added for the call of Connect
  tried,       \* for every output pin, the pins tried, and NoPin for a new AssFilter
  rendered,    \* the output pins that are done
  running,     \* the graph runs
  history      \* at first: the key, the pins in the graph, whether there was a
               \* consumer; and whether an AssFilter was removed since

filters == <<inGraph, loaded, external, paused, sink, provider, key>>
builder == <<added, tried, rendered>>
vars == <<pinVars, fileSource, fileFound, filters, builder, consumer, running, history>>

AssFilters == inGraph \cap Filters

\* What the application put into the graph before it renders the file.
Init ==
  /\ PinInit
  /\ offers \in Media
  /\ fileSource \in BOOLEAN
  /\ fileFound \in BOOLEAN
  /\ consumer \in BOOLEAN
  /\ key \in Keys
  /\ \E f \in Filters :
       inGraph \in {{}, {Loader}} \cup (IF key = "none" THEN {} ELSE {{f}, {f, Loader}})
  /\ loaded = FALSE
  /\ external = [f \in Filters |-> FALSE]
  /\ paused = [f \in Filters |-> FALSE]
  /\ sink = [f \in Filters |-> FALSE]
  /\ provider = NoPin
  /\ added = NoPin
  /\ tried = [o \in Outputs |-> {}]
  /\ rendered = {}
  /\ running = FALSE
  /\ history = [key |-> key, inGraph |-> inGraph, consumer |-> consumer, removed |-> FALSE]

-----------------------------------------------------------------------------
(* The filters.                                                            *)

\* A new AssFilter joins.  LoadSettings writes a key where there is none.
Join(f, autoLoaded) ==
  /\ external' = [external EXCEPT ![f] = autoLoaded]
  /\ key' = IF key = "none" THEN "off" ELSE key

Offers(kinds) ==
  \E o \in Outputs : \E i \in 1 .. Len(offers[o]) : offers[o][i] \in kinds

AutoLoadByAnyFilter == ~Offers(Seen)

AutoLoad == ~(fileSource /\ Offers(Seen))

\* Without a key the value read was never set.
DisableAutoLoad ==
  CASE key = "none" -> BOOLEAN [] key = "on" -> {TRUE} [] OTHER -> {FALSE}

\* Bound: there is an AssFilter that can still be created.
Spare == Filters \ inGraph # {}
NewFilter == CHOOSE f \in Filters : f \notin inGraph

\* The auto loader is asked for a type.
CheckInput(t) ==
  /\ loaded' = TRUE
  /\ IF loaded \/ t \notin Streams \/ ~AutoLoad
     THEN UNCHANGED <<inGraph, external, key>>
     ELSE \E disabled \in DisableAutoLoad :
            IF disabled
            THEN UNCHANGED <<inGraph, external, key>>
            ELSE /\ Spare
                 /\ inGraph' = inGraph \cup {NewFilter}
                 /\ Join(NewFilter, TRUE)

\* The consumer, once connected, refuses another provider.
ConnectToConsumer(f) ==
  IF consumer /\ provider = NoPin
  THEN /\ provider' = f
       /\ sink' = [sink EXCEPT ![f] = TRUE]
  ELSE UNCHANGED <<provider, sink>>

Pause(f) ==
  /\ running
  /\ f \in AssFilters
  /\ ~paused[f]
  /\ paused' = [paused EXCEPT ![f] = TRUE]
  /\ IF external[f] /\ ~fileFound
     THEN UNCHANGED <<provider, sink>>
     ELSE ConnectToConsumer(f)
  /\ UNCHANGED <<pinVars, fileSource, fileFound, inGraph, loaded, external, key,
                 builder, consumer, running, history>>

LeaveConsumer(f) ==
  /\ inGraph' = inGraph \ {f}
  /\ external' = [external EXCEPT ![f] = FALSE]
  /\ paused' = [paused EXCEPT ![f] = FALSE]
  /\ sink' = [sink EXCEPT ![f] = FALSE]
  /\ UNCHANGED provider

\* JoinFilterGraph without a graph.
Leave(f) ==
  /\ inGraph' = inGraph \ {f}
  /\ external' = [external EXCEPT ![f] = FALSE]
  /\ paused' = [paused EXCEPT ![f] = FALSE]
  /\ sink' = [sink EXCEPT ![f] = FALSE]
  /\ provider' = IF sink[f] THEN NoPin ELSE provider

-----------------------------------------------------------------------------
(* The graph builder.                                                      *)

Rendering(o) ==
  /\ stage = "idle"
  /\ ~running
  /\ o \notin rendered
  /\ peer[o] = NoPin

\* An AssFilter with an external file has no pin.
FreePins == {p \in inGraph : peer[p] = NoPin /\ (p \in Filters => ~external[p])}

Try(o, p, new) ==
  /\ Connect(o, p)
  /\ added' = new
  /\ tried' = [tried EXCEPT ![o] = @ \cup {p} \cup (IF new \in Filters THEN {NoPin} ELSE {})]
  /\ UNCHANGED <<fileSource, fileFound, paused, sink, provider, rendered, consumer,
                 running, history>>

TryFreePin(o, p) ==
  /\ Rendering(o)
  /\ p \in FreePins \ tried[o]
  /\ Try(o, p, NoPin)
  /\ UNCHANGED <<inGraph, loaded, external, key>>

MayJoinAssFilters == Loader \notin inGraph

\* The auto loader joins only a graph without one of its kind or an AssFilter.
MayJoin == AssFilters = {} /\ Loader \notin inGraph

TryLoader(o) ==
  /\ Rendering(o)
  /\ FreePins \subseteq tried[o]
  /\ Loader \notin tried[o]
  /\ MayJoin
  /\ inGraph' = inGraph \cup {Loader}
  /\ loaded' = FALSE
  /\ Try(o, Loader, Loader)
  /\ UNCHANGED <<external, key>>

LoaderRefused(o) ==
  /\ Rendering(o)
  /\ FreePins \subseteq tried[o]
  /\ Loader \notin tried[o]
  /\ ~MayJoin
  /\ tried' = [tried EXCEPT ![o] = @ \cup {Loader}]
  /\ UNCHANGED <<pinVars, fileSource, fileFound, filters, added, rendered, consumer,
                 running, history>>

TryAssFilter(o) ==
  /\ Rendering(o)
  /\ FreePins \cup {Loader} \subseteq tried[o]
  /\ NoPin \notin tried[o]
  /\ \E i \in 1 .. Len(offers[o]) : offers[o][i] \in Registered
  /\ Spare
  /\ inGraph' = inGraph \cup {NewFilter}
  /\ Join(NewFilter, FALSE)
  /\ Try(o, NewFilter, NewFilter)
  /\ UNCHANGED loaded

\* Other filters take what is left; that of a video may be the consumer.
RenderOther(o) ==
  /\ Rendering(o)
  /\ FreePins \cup {Loader} \subseteq tried[o]
  /\ \/ NoPin \in tried[o]
     \/ \A i \in 1 .. Len(offers[o]) : offers[o][i] \notin Registered
  /\ rendered' = rendered \cup {o}
  /\ consumer' \in {consumer, consumer \/ \E i \in 1 .. Len(offers[o]) : offers[o][i] = "video"}
  /\ UNCHANGED <<pinVars, fileSource, fileFound, filters, added, tried, running, history>>

\* The steps of Connect; the input pin is an AssFilter's or the auto loader's.
Accepts == In \in Filters /\ Proposed \in Accepted

Receive ==
  /\ Refuse(Accepts) \/ ReceiveConnection(Accepts)
  /\ IF In = Loader /\ peer[Loader] = NoPin
     THEN CheckInput(Proposed)
     ELSE UNCHANGED <<inGraph, loaded, external, key>>
  /\ UNCHANGED <<fileSource, fileFound, paused, sink, provider, builder, consumer,
                 running, history>>

Negotiate ==
  /\ AttemptConnection \/ NoMoreTypes \/ RefuseTheirAllocator \/ FailToComplete
  /\ UNCHANGED <<fileSource, fileFound, filters, builder, consumer, running, history>>

Succeed ==
  /\ UseTheirAllocator \/ UseOurAllocator
  /\ rendered' = rendered \cup {Out}
  /\ added' = NoPin
  /\ UNCHANGED <<fileSource, fileFound, filters, tried, consumer, running, history>>

\* A filter that was added for a call that failed is removed.
GiveUp ==
  /\ Return
  /\ added' = NoPin
  /\ CASE added = NoPin -> UNCHANGED <<inGraph, external, paused, sink, provider>>
       [] added = Loader -> /\ inGraph' = inGraph \ {Loader}
                            /\ UNCHANGED <<external, paused, sink, provider>>
       [] OTHER -> Leave(added)
  /\ loaded' = (loaded /\ added # Loader)
  /\ UNCHANGED <<fileSource, fileFound, key, tried, rendered, consumer, running, history>>

-----------------------------------------------------------------------------
(* The application.                                                        *)

Run ==
  /\ stage = "idle"
  /\ running' = ~running
  /\ UNCHANGED <<pinVars, fileSource, fileFound, filters, builder, consumer, history>>

RemoveFilter(f) ==
  /\ ~running
  /\ f \in AssFilters
  /\ Disconnect(f)
  /\ Leave(f)
  /\ history' = [history EXCEPT !.removed = TRUE]
  /\ UNCHANGED <<fileSource, fileFound, loaded, key, builder, consumer, running>>

Next ==
  \/ \E o \in Outputs :
       \/ \E p \in Inputs : TryFreePin(o, p)
       \/ TryLoader(o)
       \/ LoaderRefused(o)
       \/ TryAssFilter(o)
       \/ RenderOther(o)
  \/ Receive
  \/ Negotiate
  \/ Succeed
  \/ GiveUp
  \/ Run
  \/ \E f \in Filters : Pause(f) \/ RemoveFilter(f)

Spec == Init /\ [][Next]_vars

-----------------------------------------------------------------------------
(* Properties.                                                             *)

AutoLoaded == {f \in AssFilters : external[f]}

\* There is never a second AssFilter for external subtitles: the auto loader is
\* tried for every pin, by a graph that may keep it, and filters leave the graph.
OneAutoLoaded == \A f, g \in AutoLoaded : f = g

\* When all pins are rendered and it is due, there is an AssFilter, unless it was
\* removed: one chance per stay in the graph is enough where the first type of
\* every pin is one the auto loader acts on, or it comes anew for every pin.
AutoLoadedWhenDue ==
  LET acts(o) == Len(offers[o]) > 0 /\ offers[o][1] \in Streams
      due == /\ \E o \in Outputs : acts(o)
             /\ Loader \notin history.inGraph \/ \A o \in Outputs : acts(o)
  IN stage = "idle" /\ rendered = Outputs /\ due /\ ~history.removed
     /\ history.key \in {"absent", "off"} /\ ~(fileSource /\ Offers(Seen))
     => AssFilters # {}

\* The consumer and the AssFilters agree on which of them is shown; with a
\* consumer from the start and no filter removed it is one as soon as a filter
\* was paused that has something to show.
OneProvider ==
  /\ \A f \in Filters : sink[f] <=> provider = f
  /\ \A f \in Filters : sink[f] => f \in AssFilters /\ paused[f]
  /\ history.consumer /\ ~history.removed =>
       \A f \in AssFilters : paused[f] /\ (external[f] => fileFound) => provider # NoPin

=============================================================================
