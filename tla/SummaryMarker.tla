--------------------------- MODULE SummaryMarker ---------------------------
(***************************************************************************)
(* The relay of a streamed answer: SummaryMarker and the loop of _forward  *)
(* that feeds it, in src/server/jev_server.py.  The tag of the route ends  *)
(* every reasoning summary, its header begins every message, and the       *)
(* terminal event repeats the id that response.created announced.          *)
(*                                                                         *)
(* An event is one block of the stream; text is the set of the parts it    *)
(* has text of.  A mark is the tag of a summary part or the header of a    *)
(* message part; the texts of the upstream contain neither.  The display   *)
(* of both is switched on.  The upstream streams the parts of an item in   *)
(* their order, items side by side; text that no delta streamed may come   *)
(* with the events that end its part.                                      *)
(***************************************************************************)
EXTENDS Integers, Sequences, FiniteSets, FiniteSetsExt

CONSTANTS Reasoning, Messages, Nothing,
          Parts,        \* of an item
          MaxDeltas,    \* of a part
          MaxPings,     \* comments and other blocks that are no event
          Cuts          \* where the upstream may end: "clean", "line", "half"

Items == Reasoning \cup Messages
ASSUME MarkerAssumption ==
    /\ Reasoning \cap Messages = {} /\ Nothing \notin Items \cup {"announced", "encoded"}
    /\ Parts \in Nat \ {0} /\ MaxDeltas \in Nat /\ MaxPings \in Nat
    /\ Cuts \subseteq {"clean", "line", "half"}

VARIABLES up, pings, sent,                  \* the upstream (external); lead tells a "done" event that was
                                            \* the first with text, and deltas with text after it: "mixed"
          parted,                           \* texts streamed up to a delta that another block followed (history)
          cur, place,                       \* _block and _buf: the event that is being received
          held,                             \* the delta held back, in a sequence of at most one
          headed, headerPart, responseId, terminal,
          taken, out, over,                 \* numbers of the events taken and written
          view                              \* what the caller has read

upstream == <<up, pings, sent, parted>>
marker == <<headed, headerPart, responseId, terminal>>
stream == <<upstream, cur, place, held, marker, taken, out, over, view>>

MarkerInit ==
    /\ up = [i \in Items |-> [stage |-> "new", part |-> 0, text |-> {}, deltas |-> 0,
                        lead |-> "live"]]
    /\ pings = 0 /\ sent = {} /\ parted = {}
    /\ cur = Nothing /\ place = "clean" /\ held = <<>>
    /\ headed = {} /\ headerPart = [i \in Messages |-> 0] /\ responseId = Nothing /\ terminal = FALSE
    /\ taken = 0 /\ out = <<>> /\ over = "relay"
    /\ view = [streamed |-> {}, begun |-> {}, marked |-> {}, plain |-> {}, ids |-> {}, ends |-> <<>>]

---------------------------------------------------------------------------
(* The upstream.                                                           *)
Event(kind, i, p, text) == [n |-> taken + 1, kind |-> kind, item |-> i, part |-> p, text |-> text]
Texts(i, p) == IF i \in Messages THEN {{}, {p}} ELSE {{p}}
Pairs(e) == IF e.kind = "terminal" THEN UNION {{<<i, p>> : p \in up[i].text} : i \in e.text}
                                   ELSE {<<e.item, p>> : p \in e.text}
Arrive(e) == place = "clean" /\ over = "relay" /\ cur' = e /\ place' = "half"
             /\ parted' = parted \cup (IF held # <<>> /\ held[1].item # e.item THEN Pairs(held[1]) ELSE {})
             /\ UNCHANGED <<held, marker, taken, out, over, view>>
Item(i, e, to) ==
    /\ "terminal" \notin sent /\ Arrive(e)
    /\ up' = [up EXCEPT ![i] = to] /\ UNCHANGED <<pings, sent>>
Added(i) ==
    /\ up[i].stage = "new"
    /\ \E text \in {{}} \cup (IF i \in Messages THEN SUBSET (1..Parts) ELSE {}) :
         Item(i, Event("add", i, 0, text),
              [up[i] EXCEPT !.stage = IF text = {} THEN "open" ELSE "whole", !.text = text])
PartAdded(i) ==
    LET p == up[i].part + 1 IN
    /\ up[i].stage = "open" /\ p <= Parts
    /\ \E text \in {{}} \cup (IF i \in Messages THEN {{p}} ELSE {}) :
         Item(i, Event("padd", i, p, text),
              [up[i] EXCEPT !.stage = "part", !.part = p, !.text = @ \cup text, !.deltas = 0])
Delta(i) ==
    /\ up[i].stage = "part" /\ up[i].deltas < MaxDeltas
    /\ \E text \in Texts(i, up[i].part) :
         Item(i, Event("delta", i, up[i].part, text),
              [up[i] EXCEPT !.text = @ \cup text, !.deltas = @ + 1,
                            !.lead = IF @ = "done" /\ text # {} THEN "mixed" ELSE @])
Done(i, kind, from, to) ==
    LET p == up[i].part IN
    /\ up[i].stage = from
    /\ \E text \in {up[i].text \cap {p}, {p}} :
         Item(i, Event(kind, i, p, text),
              [up[i] EXCEPT !.stage = to, !.text = @ \cup text,
                            !.lead = IF up[i].text = {} /\ text # {} THEN "done" ELSE @])
ItemDone(i) ==
    /\ up[i].stage = "whole" \/ (up[i].stage = "open" /\ up[i].part > 0)
    /\ Item(i, Event("idone", i, 0, up[i].text), [up[i] EXCEPT !.stage = "done"])
Created ==
    /\ sent = {} /\ taken = 0 /\ Arrive(Event("created", Nothing, 0, {}))
    /\ sent' = {"created"} /\ UNCHANGED <<up, pings>>
Terminal ==
    /\ "terminal" \notin sent
    /\ \E whole \in BOOLEAN :
         Arrive([Event("terminal", Nothing, 0, {}) EXCEPT !.text =
                   IF whole THEN {i \in Items : up[i].stage = "done"} ELSE {}])
    /\ sent' = sent \cup {"terminal"} /\ UNCHANGED <<up, pings>>
Ping ==
    /\ pings < MaxPings /\ pings' = pings + 1 /\ Arrive(Event("ping", Nothing, 0, {}))
    /\ UNCHANGED <<up, sent>>

---------------------------------------------------------------------------
(* What the caller makes of an event e that is marked at the pairs m.      *)
Shown(v, e, m, id) ==
    IF e.kind \in {"delta", "padd"}
    THEN [v EXCEPT !.streamed = @ \cup Pairs(e), !.begun = @ \cup m]
    ELSE [v EXCEPT !.marked = @ \cup m, !.plain = @ \cup (Pairs(e) \ m),
                   !.ids = @ \cup (IF id = Nothing THEN {} ELSE {id}),
                   !.ends = IF e.kind = "terminal" THEN Append(@, "terminal") ELSE @]

(* _flush_held, or the emission of the held delta with its tag.            *)
HeldNo == [j \in 1..Len(held) |-> held[j].n]
AfterHeld(tagged) ==
    IF held = <<>> THEN view
                   ELSE Shown(view, held[1], IF tagged THEN Pairs(held[1]) ELSE {}, Nothing)
Emit(tagged, e, m, id) ==
    /\ out' = out \o HeldNo \o <<e.n>> /\ held' = <<>>
    /\ view' = Shown(AfterHeld(tagged), e, m, id)

HeldOf(i, parts) == held # <<>> /\ held[1].item = i /\ held[1].part \in parts

(* _sign_message_item: the first part that has text.                       *)
Sign(i, text) == IF text = {} THEN {} ELSE {<<i, Min(text)>>}
(* Mutant: the last part that was done has the header. *)
DefaultLast(i, text) == IF text # {} THEN Min(text) ELSE headerPart[i]
(* _header_parts.setdefault                                                *)
Default(i, text) == IF headerPart[i] = 0 /\ text # {} THEN Min(text) ELSE headerPart[i]

---------------------------------------------------------------------------
(* _process_block, by the kind of the event.                               *)
MessageBlock(e) ==
    LET hp == Default(e.item, e.text) IN
    /\ Emit(FALSE, e,
            CASE e.kind \in {"add", "idone"} -> Sign(e.item, e.text)
              [] e.kind = "delta" -> IF e.item \in headed THEN {} ELSE Sign(e.item, e.text)
              [] OTHER -> IF hp = e.part THEN Sign(e.item, e.text) ELSE {},
            Nothing)
    /\ headerPart' = [headerPart EXCEPT ![e.item] = hp]
    /\ headed' = headed \cup (IF \/ e.kind \in {"delta", "padd"} /\ e.text # {}
                                 \/ e.kind = "add" /\ hp # 0
                              THEN {e.item} ELSE {})
    /\ UNCHANGED <<responseId, terminal>>
(* Mutant: a delta replaces the one that is held. *)
SummaryBlockDrops(e) ==
    /\ \/ e.kind = "delta" /\ UNCHANGED <<out, view>> /\ held' = <<e>>
       \/ e.kind \in {"tdone", "pdone"} /\ Emit(HeldOf(e.item, {e.part}), e, Pairs(e), Nothing)
       \/ e.kind = "idone" /\ Emit(HeldOf(e.item, 1..Parts), e, Pairs(e), Nothing)
       \/ e.kind \in {"add", "padd"} /\ Emit(FALSE, e, {}, Nothing)
    /\ UNCHANGED marker
SummaryBlock(e) ==
    /\ \/ e.kind = "delta" /\ out' = out \o HeldNo /\ view' = AfterHeld(FALSE) /\ held' = <<e>>
       \/ e.kind \in {"tdone", "pdone"} /\ Emit(HeldOf(e.item, {e.part}), e, Pairs(e), Nothing)
       \/ e.kind = "idone" /\ Emit(HeldOf(e.item, 1..Parts), e, Pairs(e), Nothing)
       \/ e.kind \in {"add", "padd"} /\ Emit(FALSE, e, {}, Nothing)
    /\ UNCHANGED marker
(* Mutant: the type of a terminal event is not remembered. *)
TerminalBlockForgets(e) ==
    /\ Emit(FALSE, e, (UNION {Sign(i, up[i].text) : i \in e.text \cap Messages})
                      \cup {x \in Pairs(e) : x[1] \in Reasoning},
            IF responseId = Nothing THEN "encoded" ELSE responseId)
    /\ UNCHANGED marker
TerminalBlock(e) ==
    LET signed == e.text \cap Messages
        id == IF responseId = Nothing THEN "encoded" ELSE responseId IN
    /\ Emit(FALSE, e, (UNION {Sign(i, up[i].text) : i \in signed})
                      \cup {x \in Pairs(e) : x[1] \in Reasoning}, id)
    /\ headerPart' = [i \in Messages |-> IF i \in signed THEN Default(i, up[i].text)
                                                         ELSE headerPart[i]]
    /\ terminal' = TRUE /\ UNCHANGED <<headed, responseId>>
CreatedBlock(e) ==
    /\ responseId' = "announced" /\ Emit(FALSE, e, {}, "announced")
    /\ UNCHANGED <<headed, headerPart, terminal>>
OtherBlock(e) == Emit(FALSE, e, {}, Nothing) /\ UNCHANGED marker

(* feed: a line is complete; the blank line completes the block.           *)
Line ==
    /\ over = "relay" /\ place = "half" /\ place' = "line"
    /\ UNCHANGED <<upstream, cur, held, marker, taken, out, over, view>>
Block ==
    /\ over = "relay" /\ place = "line"
    /\ \/ cur.item \in Messages /\ MessageBlock(cur)
       \/ cur.item \in Reasoning /\ SummaryBlock(cur)
       \/ cur.kind = "terminal" /\ TerminalBlock(cur)
       \/ cur.kind = "created" /\ CreatedBlock(cur)
       \/ cur.kind = "ping" /\ OtherBlock(cur)
    /\ taken' = cur.n /\ cur' = Nothing /\ place' = "clean"
    /\ UNCHANGED <<upstream, over>>

---------------------------------------------------------------------------
(* The upstream has ended: flush, and an error if no terminal event came.  *)
(* What follows half a line cannot be read.                                *)
RawId(e) == CASE e.kind = "terminal" -> "encoded" [] e.kind = "created" -> "announced" [] OTHER -> Nothing
Eof ==
    /\ over = "relay" /\ place \in Cuts /\ over' = "ended"
    /\ LET v == IF place = "line" THEN Shown(AfterHeld(FALSE), cur, {}, RawId(cur)) ELSE AfterHeld(FALSE)
       IN  view' = IF terminal \/ place = "half" THEN v ELSE [v EXCEPT !.ends = Append(@, "error")]
    /\ out' = out \o HeldNo \o (IF place = "clean" THEN <<>> ELSE <<cur.n>>)
    /\ taken' = taken + (IF place = "clean" THEN 0 ELSE 1)
    /\ held' = <<>> /\ cur' = Nothing /\ place' = "clean" /\ UNCHANGED <<upstream, marker>>
(* The transport raises, on either side.                                   *)
Break ==
    /\ over = "relay" /\ over' = "broken"
    /\ UNCHANGED <<upstream, cur, place, held, marker, taken, out, view>>

Upstream ==
    \/ Created \/ Terminal \/ Ping
    \/ \E i \in Items : \/ Added(i) \/ PartAdded(i) \/ Delta(i) \/ ItemDone(i)
                        \/ Done(i, "tdone", "part", "text") \/ Done(i, "pdone", "text", "open")
MarkerNext == Upstream \/ Line \/ Block \/ Eof \/ Break
MarkerSpec == MarkerInit /\ [][MarkerNext]_stream

---------------------------------------------------------------------------
(* Every event is written once and in order, wherever the chunks are cut,  *)
(* and at most one is held back; none is when the stream has ended.        *)
Relay == INSTANCE StreamRelay WITH given <- out
InOrder == Relay!Spec

(* A text is the same, mark included, in every event that carries it; but  *)
(* the exempt ones may have been streamed without the mark.                *)
Same(items, exempt) == \A x \in items \X (1..Parts) :
    /\ x \in view.plain => x \notin view.marked /\ x \notin view.begun
    /\ x \in view.marked /\ x \in view.streamed => x \in view.begun \cup exempt

(* What the caller was streamed is what the done events, the items and the *)
(* terminal event say: a message has one header, on one part, and a summary*)
(* ends with its tag.  A delta that another block follows is let go without*)
(* the tag, because nothing tells yet that it was the last of its text.    *)
(* Left out are the messages whose first text came with a done event and   *)
(* that were streamed afterwards: _sign_done_block does not note that they *)
(* are headed, and their next delta with text has the header once more.    *)
Mixed == {i \in Messages : up[i].lead = "mixed"}
MarksAgree ==
    /\ Same(Messages \ Mixed, {}) /\ Same(Reasoning, parted)
    /\ \A i \in Messages \ Mixed : Cardinality({x \in view.begun \cup view.marked : x[1] = i}) <= 1

(* A stream that ends between two blocks has told the caller once how, and *)
(* under one response id.                                                  *)
OneVerdict ==
    [][over' = "ended" /\ place = "clean" => Len(view'.ends) = 1 /\ Cardinality(view'.ids) <= 1]_stream
=============================================================================
