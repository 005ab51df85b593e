------------------------- MODULE ProtocolHubProofs --------------------------
(***************************************************************************)
(* Proofs about ProtocolHub: for any capabilities, arguments, message      *)
(* lengths and number of hops, what a hub writes it reads back, and so a   *)
(* call keeps its intent.                                                  *)
(***************************************************************************)
EXTENDS ProtocolHub, SequenceTheorems, WellFoundedInduction, TLAPS

-----------------------------------------------------------------------------
(* A set of naturals has a least element.                                  *)
LEMMA LeastExists ==
    ASSUME NEW T, T \subseteq Nat, T # {} PROVE \E x \in T : \A y \in T : x <= y
<1> DEFINE R == OpToRel(<, Nat)
<1>1. IsWellFoundedOn(R, Nat)
  BY NatLessThanWellFounded
<1>2. \A x, y \in Nat : x < y => <<x, y>> \in R
  BY DEF OpToRel
<1> HIDE DEF R
<1>3. PICK x \in T : \A y \in T : ~(<<y, x>> \in R)
  BY <1>1, WFMin, Zenon
<1>4. ASSUME NEW y \in T PROVE x <= y
  <2>1. ~(y < x)
    BY <1>2, <1>3, Zenon
  <2> QED
    BY <2>1
<1> QED
  BY <1>4

(* The first and the last of some positions of a message are among them.   *)
LEMMA FirstInside ==
    ASSUME NEW n \in Nat, NEW T, T \subseteq 1..n, T # {} PROVE FirstOf(T) \in T
<1>1. T \subseteq Nat
  OBVIOUS
<1>2. \E x \in T : \A y \in T : x <= y
  BY <1>1, LeastExists, Zenon
<1> QED
  BY <1>2, Zenon DEF FirstOf

(* The last of several positions is one of them.                           *)
LEMMA LastInside ==
    ASSUME NEW n \in Nat, NEW T, T \subseteq 1..n, T # {} PROVE LastOf(T) \in T
<1> DEFINE U == {u \in Nat : n - u \in T}
<1>1. PICK t \in T : t \in 1..n
  BY Zenon
<1>2. n - t \in U
  BY <1>1
<1>3. PICK u \in U : \A v \in U : u <= v
  BY <1>2, LeastExists, Zenon
<1>4. ASSUME NEW y \in T PROVE y <= n - u
  <2>1. y \in 1..n
    OBVIOUS
  <2>2. n - y \in U
    BY <2>1
  <2>3. u <= n - y
    BY <2>2, <1>3
  <2> QED
    BY <2>1, <2>3
<1>5. n - u \in T /\ \A y \in T : y <= n - u
  BY <1>3, <1>4
<1> QED
  BY <1>5, Zenon DEF LastOf

(* Of one position both are that one.                                      *)
LEMMA OneInside == ASSUME NEW n \in Nat PROVE FirstOf({n}) = n /\ LastOf({n}) = n
  BY DEF FirstOf, LastOf

(* Messages of one and of two parts.                                       *)
LEMMA OnePart == ASSUME NEW x PROVE DOMAIN <<x>> = {1} /\ <<x>>[1] = x
  OBVIOUS

(* A part appended to a message of one, or none appended.                  *)
LEMMA Appended == ASSUME NEW x, NEW y PROVE <<x>> \o <<y>> = <<x, y>> /\ <<x>> \o <<>> = <<x>>
<1>1. <<x>> \in Seq({x, y}) /\ <<y>> \in Seq({x, y}) /\ <<x, y>> \in Seq({x, y})
  OBVIOUS
<1>2. Len(<<x>>) = 1 /\ Len(<<y>>) = 1 /\ Len(<<x, y>>) = 2
  OBVIOUS
<1>3. <<x>> \o <<y>> \in Seq({x, y}) /\ Len(<<x>> \o <<y>>) = 2
  BY <1>1, <1>2, ConcatProperties
<1>4. (<<x>> \o <<y>>)[1] = x /\ (<<x>> \o <<y>>)[2] = y
  BY <1>1, <1>2, ConcatProperties
<1>5. \A i \in 1..2 : (<<x>> \o <<y>>)[i] = <<x, y>>[i]
  BY <1>4
<1>6. <<x>> \o <<y>> = <<x, y>>
  BY <1>1, <1>2, <1>3, <1>5, SeqEqual, Zenon
<1> QED
  BY <1>1, <1>6, ConcatEmptySeq

(* The parts of a message of two.                                          *)
LEMMA TwoParts ==
    ASSUME NEW x, NEW y PROVE DOMAIN <<x, y>> = {1, 2} /\ <<x, y>>[1] = x /\ <<x, y>>[2] = y
  OBVIOUS

(* The marks differ.                                                       *)
LEMMA Marks ==
    /\ NoName # Missing /\ NoName # Null /\ NoName # NewId /\ NoName # "i1"
    /\ Empty # Missing /\ Empty # Null /\ NewId # Missing /\ NewId # Null
    /\ Missing # Null /\ Missing # "i1" /\ Null # "i1" /\ NewId # "i1"
  BY Zenon DEF NoName, Missing, Null, Empty, NewId

(* The fields of parts.                                                    *)
LEMMA PartFields ==
    /\ \A t : TextPart(t).kind = "text" /\ TextPart(t).text = t
    /\ \A n, a : DataPart(n, a).kind = "data" /\ DataPart(n, a).name = n /\ DataPart(n, a).args = a
  BY DEF TextPart, DataPart

-----------------------------------------------------------------------------
(* What the canonical layer holds.                                         *)
Typed(c) ==
    /\ c.ok \in BOOLEAN /\ c.cap \in Capabilities \cup {NoName} /\ c.args \in Args \cup {Empty}
    /\ c.id \in {NewId, NoName, "i1"}

(* What one translation keeps of a call.                                   *)
Keeps(p, c, d) ==
    /\ d.ok /\ Typed(d) /\ d.cap = c.cap
    /\ c.cap # NoName => d.args = c.args
    /\ p \in {"mcp", "a2a", "openai"} /\ c.id = "i1" => d.id = "i1"
    /\ p \in {"a2a", "acp"} /\ SomeText(c.text) => d.text = c.text

(* A hub reads back what it wrote (to_canonical_call after                 *)
(* from_canonical_call, for each of the adapters).                         *)
LEMMA McpKeeps == ASSUME NEW c, Typed(c) PROVE Keeps("mcp", c, McpCall(McpWire(c)))
  BY HubAssumption, Marks, Zenon DEF Typed, Keeps, McpCall, McpWire, Wire, DataPart, Canonical, Call, PresentId, Name

(* openai.py: the function name, its arguments and the call id.            *)
LEMMA OpenaiKeeps == ASSUME NEW c, Typed(c) PROVE Keeps("openai", c, OpenaiCall(OpenaiWire(c)))
  BY HubAssumption, Marks, Zenon DEF Typed, Keeps, OpenaiCall, OpenaiWire, Wire, DataPart, Canonical, Call, TruthyId, Name, Given

(* gemini.py: the function name and its arguments.                         *)
LEMMA GeminiKeeps == ASSUME NEW c, Typed(c) PROVE Keeps("gemini", c, GeminiCall(GeminiWire(c)))
  BY HubAssumption, Marks, Zenon DEF Typed, Keeps, GeminiCall, GeminiWire, Wire, DataPart, Canonical, Call, TruthyId, Name

(* The fields of a canonical call.                                         *)
LEMMA CallFields ==
    \A cap, args, t, id :
        LET d == Call(cap, args, t, id) IN
        d.ok = TRUE /\ d.cap = cap /\ d.args = args /\ d.text = t /\ d.id = id
  BY DEF Call

(* When a call keeps the intent of another.                                *)
LEMMA CallKeeps ==
    ASSUME NEW p, NEW c, Typed(c), NEW args \in Args \cup {Empty}, NEW t,
           NEW id \in {NewId, NoName, "i1"},
           c.cap # NoName => args = c.args,
           p \in {"mcp", "a2a", "openai"} /\ c.id = "i1" => id = "i1",
           p \in {"a2a", "acp"} /\ SomeText(c.text) => t = c.text
    PROVE  Keeps(p, c, Call(c.cap, args, t, id))
<1> DEFINE d == Call(c.cap, args, t, id)
<1>1. d.ok = TRUE /\ d.cap = c.cap /\ d.args = args /\ d.text = t /\ d.id = id
  BY CallFields
<1> HIDE DEF d
<1>2. d.ok /\ d.ok \in BOOLEAN
  BY <1>1, Zenon
<1>3. d.cap \in Capabilities \cup {NoName}
  BY <1>1 DEF Typed
<1>4. Typed(d)
  BY <1>1, <1>2, <1>3, Zenon DEF Typed
<1>5. c.cap # NoName => d.args = c.args
  BY <1>1
<1>6. p \in {"mcp", "a2a", "openai"} /\ c.id = "i1" => d.id = "i1"
  BY <1>1
<1>7. p \in {"a2a", "acp"} /\ SomeText(c.text) => d.text = c.text
  BY <1>1
<1>8. Keeps(p, c, d)
  BY <1>1, <1>2, <1>4, <1>5, <1>6, <1>7, Zenon DEF Keeps
<1> QED
  BY <1>8 DEF d

(* agntcy.py: the action travels as the JSON text of a message.            *)
LEMMA AgntcyKeeps == ASSUME NEW c, Typed(c) PROVE Keeps("agntcy", c, AgntcyCall(AgntcyWire(c)))
<1> DEFINE w == AgntcyWire(c)
           j == JsonText(c.cap, c.args)
           actions == {i \in DOMAIN w.parts : w.parts[i].text.form = "json"}
           words == {i \in DOMAIN w.parts : w.parts[i].text.form # "json" /\ SomeText(w.parts[i].text)}
           text == IF words = {} THEN NoText ELSE w.parts[FirstOf(words)].text
<1>1. w.parts = <<TextPart(j)>>
  BY DEF AgntcyWire, Wire
<1>2. j.form = "json" /\ j.name = c.cap /\ j.args = c.args
  BY DEF JsonText, Text
<1>3. DOMAIN w.parts = {1} /\ w.parts[1].text = j
  BY <1>1, OnePart, PartFields
<1>4. actions = {1}
  BY <1>2, <1>3
<1>5. LastOf(actions) = 1
  BY <1>4, OneInside
<1>6. AgntcyCall(w) = Call(c.cap, c.args, text, NewId)
  <2>1. AgntcyCall(w) = Call(w.parts[LastOf(actions)].text.name, w.parts[LastOf(actions)].text.args, text, NewId)
    BY <1>4, Zenon DEF AgntcyCall
  <2> QED
    BY <2>1, <1>2, <1>3, <1>5, Zenon
<1> HIDE DEF text
<1> QED
  BY <1>6, CallKeeps, Marks, Zenon DEF Typed

(* a2a.py: a text part, and a data part when there is an action.           *)
LEMMA A2aKeeps == ASSUME NEW c, Typed(c) PROVE Keeps("a2a", c, A2aCall(A2aWire(c)))
<1> DEFINE w == A2aWire(c)
           ps == w.parts
           t == IF SomeText(c.text) THEN c.text ELSE CallText(c.cap)
           named == {i \in NameIn(ps) : ps[i].name # NoName}
<1>1. w.op = "call" /\ w.id = c.id
  BY DEF A2aWire, Wire
<1>2. PresentId(c.id) \in {NewId, NoName, "i1"} /\ (c.id = "i1" => PresentId(c.id) = "i1")
  BY Marks DEF Typed, PresentId
<1>3. SomeText(c.text) => t = c.text
  OBVIOUS
<1>4. CASE c.cap = NoName
  <2>1. ps = <<TextPart(t)>>
    BY <1>4, Appended DEF A2aWire, Wire
  <2> HIDE DEF t
  <2>2. DOMAIN ps = {1} /\ ps[1].kind = "text" /\ ps[1].text = t
    BY <2>1, OnePart, PartFields
  <2> HIDE DEF ps
  <2>3. NameIn(ps) = {} /\ ArgsIn(ps) = {} /\ TextIn(ps) = {1}
    BY <2>2 DEF NameIn, ArgsIn, TextIn
  <2>4. FirstText(ps) = t /\ LastArgs(ps) = Empty /\ named = {}
    BY <2>2, <2>3, OneInside DEF FirstText, LastArgs
  <2>5. A2aCall(w) = Canonical(NoName, Empty, t, PresentId(c.id))
    BY <1>1, <2>4 DEF A2aCall, ps
  <2>6. A2aCall(w) = Call(NoName, Empty, t, PresentId(c.id))
    BY <2>5, Marks DEF Canonical
  <2> QED
    BY <1>2, <1>3, <1>4, <2>6, CallKeeps, Zenon
<1>5. CASE c.cap # NoName
  <2>1. ps = <<TextPart(t), DataPart(c.cap, c.args)>>
    BY <1>5, Appended DEF A2aWire, Wire
  <2> HIDE DEF t
  <2>2. /\ DOMAIN ps = {1, 2} /\ ps[1].kind = "text" /\ ps[1].text = t
        /\ ps[2].kind = "data" /\ ps[2].name = c.cap /\ ps[2].args = c.args
    BY <2>1, TwoParts, PartFields
  <2> HIDE DEF ps
  <2>3. c.cap # Missing /\ c.args # Missing /\ c.args # Null
    BY HubAssumption, Marks DEF Typed
  <2>4. NameIn(ps) = {2} /\ ArgsIn(ps) = {2} /\ TextIn(ps) = {1}
    BY <2>2, <2>3 DEF NameIn, ArgsIn, TextIn
  <2>5. named = {2}
    BY <1>5, <2>2, <2>4
  <2>6. FirstText(ps) = t /\ LastArgs(ps) = c.args /\ ps[LastOf(named)].name = c.cap
    BY <2>2, <2>4, <2>5, OneInside DEF FirstText, LastArgs
  <2>7. A2aCall(w) = Canonical(c.cap, c.args, t, PresentId(c.id))
    BY <1>1, <2>5, <2>6 DEF A2aCall, ps
  <2>8. A2aCall(w) = Call(c.cap, c.args, t, PresentId(c.id))
    BY <2>3, <2>7 DEF Canonical
  <2> QED
    BY <1>2, <1>3, <2>8, CallKeeps DEF Typed
<1> QED
  BY <1>4, <1>5

(* acp.py: a JSON part, and a text part when there is a text.              *)
LEMMA AcpKeeps == ASSUME NEW c, Typed(c) PROVE Keeps("acp", c, AcpCall(AcpWire(c)))
<1> DEFINE w == AcpWire(c)
           ps == w.parts
<1>1. c.cap # Missing /\ c.args # Missing /\ c.args # Null
  BY HubAssumption, Marks DEF Typed
<1>2. /\ NameIn(ps) = {1} /\ ArgsIn(ps) = {1} /\ ps[1].name = c.cap /\ ps[1].args = c.args
      /\ SomeText(c.text) => FirstText(ps) = c.text
  <2>1. CASE SomeText(c.text)
    <3>1. ps = <<DataPart(c.cap, c.args), TextPart(c.text)>>
      BY <2>1, Appended DEF AcpWire, Wire
    <3>2. /\ DOMAIN ps = {1, 2} /\ ps[2].kind = "text" /\ ps[2].text = c.text
          /\ ps[1].kind = "data" /\ ps[1].name = c.cap /\ ps[1].args = c.args
      BY <3>1, TwoParts, PartFields
    <3> HIDE DEF ps
    <3>3. NameIn(ps) = {1} /\ ArgsIn(ps) = {1} /\ TextIn(ps) = {2}
      BY <3>2, <1>1 DEF NameIn, ArgsIn, TextIn
    <3> QED
      BY <3>2, <3>3, OneInside DEF FirstText
  <2>2. CASE ~SomeText(c.text)
    <3>1. ps = <<DataPart(c.cap, c.args)>>
      BY <2>2, Appended DEF AcpWire, Wire
    <3>2. DOMAIN ps = {1} /\ ps[1].kind = "data" /\ ps[1].name = c.cap /\ ps[1].args = c.args
      BY <3>1, OnePart, PartFields
    <3> HIDE DEF ps
    <3> QED
      BY <3>2, <1>1, <2>2 DEF NameIn, ArgsIn
  <2> QED
    BY <2>1, <2>2
<1>3. LastArgs(ps) = c.args /\ ps[LastOf(NameIn(ps))].name = c.cap
  BY <1>2, OneInside DEF LastArgs
<1>4. AcpCall(w) = Canonical(c.cap, c.args, FirstText(ps), NewId)
  BY <1>2, <1>3 DEF AcpCall
<1>5. AcpCall(w) = Call(c.cap, c.args, FirstText(ps), NewId)
  BY <1>1, <1>4 DEF Canonical
<1> QED
  BY <1>2, <1>5, CallKeeps, Marks DEF Typed

(* Any adapter.                                                            *)
LEMMA HubReadsBack ==
    ASSUME NEW c, Typed(c), NEW p \in Protocols
    PROVE  Keeps(p, c, ToCanonicalCall(p, FromCanonicalCall(p, c)))
  BY McpKeeps, A2aKeeps, AcpKeeps, OpenaiKeeps, GeminiKeeps, AgntcyKeeps
  DEF Protocols, ToCanonicalCall, FromCanonicalCall

-----------------------------------------------------------------------------
(* What clients write decodes to a call with its types, or to Malformed.   *)

(* CanonicalCall.__post_init__ refuses arguments that are no object.       *)
LEMMA CanonicalTyped ==
    ASSUME NEW cap \in Capabilities \cup {NoName}, NEW args \in Args \cup {Empty, Null}, NEW t,
           NEW id \in {NewId, NoName, "i1"}
    PROVE  Typed(Canonical(cap, args, t, id)) /\ Typed(Malformed)
<1>1. Typed(Malformed)
  <2>1. /\ Malformed.ok = FALSE /\ Malformed.cap = NoName /\ Malformed.args = Empty
        /\ Malformed.id = NewId
    BY DEF Malformed
  <2> QED
    BY <2>1, Zenon DEF Typed
<1>2. CASE args = Null
  BY <1>1, <1>2 DEF Canonical
<1>3. CASE args # Null
  <2> DEFINE d == Call(cap, args, t, id)
  <2>1. Canonical(cap, args, t, id) = d
    BY <1>3 DEF Canonical
  <2>2. d.ok = TRUE /\ d.cap = cap /\ d.args = args /\ d.id = id
    BY CallFields
  <2>3. args \in Args \cup {Empty}
    BY <1>3
  <2> HIDE DEF d
  <2>4. Typed(d)
    BY <2>2, <2>3, Zenon DEF Typed
  <2> QED
    BY <1>1, <2>1, <2>4
<1> QED
  BY <1>2, <1>3

(* The ids decoders keep.                                                  *)
LEMMA IdsTyped ==
    ASSUME NEW i \in Ids
    PROVE  PresentId(i) \in {NewId, NoName, "i1"} /\ TruthyId(i) \in {NewId, NoName, "i1"}
  BY Marks DEF Ids, PresentId, TruthyId

(* The parts of a message and their fields.                                *)
LEMMA PartsTyped ==
    ASSUME NEW d \in MessageParts
    PROVE  d.kind = "data" => /\ d.name \in Capabilities \cup {Missing, NoName}
                              /\ d.args \in Args \cup {Empty, Missing, Null}
<1>1. CASE d \in DataParts
  BY <1>1, PartFields DEF DataParts, ArgValues
<1>2. CASE d \notin DataParts
  BY <1>2 DEF MessageParts, TextParts, TextPart, JunkPart
<1> QED
  BY <1>1, <1>2

(* What the parts of a message name and carry.                             *)
LEMMA MessagesTyped ==
    ASSUME NEW ps \in Upto(MessageParts)
    PROVE  /\ LastArgs(ps) \in Args \cup {Empty, Null}
           /\ \A T \in SUBSET NameIn(ps) : T # {} => ps[LastOf(T)].name \in Capabilities \cup {NoName}
<1>1. PICK k \in 0..MaxParts : ps \in [1..k -> MessageParts]
  BY DEF Upto
<1>2. k \in Nat /\ NameIn(ps) \subseteq 1..k /\ ArgsIn(ps) \subseteq 1..k
  BY <1>1, HubAssumption DEF NameIn, ArgsIn
<1>3. \A i \in NameIn(ps) : ps[i].name \in Capabilities \cup {NoName}
  BY <1>1, PartsTyped DEF NameIn
<1>4. \A i \in ArgsIn(ps) : ps[i].args \in Args \cup {Empty, Null}
  BY <1>1, PartsTyped DEF ArgsIn
<1>5. LastArgs(ps) \in Args \cup {Empty, Null}
  <2>1. CASE ArgsIn(ps) = {}
    BY <2>1 DEF LastArgs
  <2>2. CASE ArgsIn(ps) # {}
    <3>1. LastOf(ArgsIn(ps)) \in ArgsIn(ps)
      BY <2>2, <1>2, LastInside
    <3> QED
      BY <2>2, <3>1, <1>4 DEF LastArgs
  <2> QED
    BY <2>1, <2>2
<1>6. ASSUME NEW T \in SUBSET NameIn(ps), T # {} PROVE ps[LastOf(T)].name \in Capabilities \cup {NoName}
  <2>1. T \subseteq 1..k
    BY <1>2
  <2>2. LastOf(T) \in T
    BY <1>2, <1>6, <2>1, LastInside, Zenon
  <2> QED
    BY <1>3, <2>2
<1> QED
  BY <1>5, <1>6

(* MCP, OpenAI and Gemini requests carry one action.                       *)
LEMMA OneActionTyped ==
    ASSUME NEW w, NEW o, NEW i \in Ids, NEW n \in Capabilities \cup {Missing, NoName},
           NEW a \in ArgValues, w = Wire(o, i, Missing, <<DataPart(n, a)>>)
    PROVE  Typed(McpCall(w)) /\ Typed(OpenaiCall(w)) /\ Typed(GeminiCall(w))
<1>1. w.op = o /\ w.id = i /\ w.parts[1] = DataPart(n, a)
  BY DEF Wire
<1>2. w.parts[1].kind = "data" /\ w.parts[1].name = n /\ w.parts[1].args = a
  BY <1>1, PartFields
<1>3. Name(n) \in Capabilities \cup {NoName}
  BY DEF Name
<1>4. /\ (IF a \in {Missing, Null} THEN Empty ELSE a) \in Args \cup {Empty, Null}
      /\ Given(a, Empty) \in Args \cup {Empty, Null}
  BY DEF Given, ArgValues
<1>5. Typed(McpCall(w))
  BY <1>1, <1>2, <1>3, <1>4, IdsTyped, CanonicalTyped, SMTT(30) DEF McpCall
<1>6. Typed(OpenaiCall(w))
  BY <1>1, <1>2, <1>3, <1>4, IdsTyped, CanonicalTyped, SMTT(30) DEF OpenaiCall
<1>7. Typed(GeminiCall(w))
  BY <1>1, <1>2, <1>3, <1>4, IdsTyped, CanonicalTyped DEF GeminiCall
<1> QED
  BY <1>5, <1>6, <1>7

(* A junk argument string is read as no arguments (openai).                *)
LEMMA JunkTyped ==
    ASSUME NEW w, NEW i \in Ids, NEW n \in Capabilities,
           w = Wire(Missing, i, Missing, <<JunkPart(n)>>)
    PROVE  Typed(OpenaiCall(w))
<1>1. w.id = i /\ w.parts[1] = JunkPart(n)
  BY DEF Wire
<1>2. w.parts[1].kind = "junk" /\ w.parts[1].name = n
  BY <1>1 DEF JunkPart
<1>3. Name(n) \in Capabilities \cup {NoName}
  BY DEF Name
<1> QED
  BY <1>1, <1>2, <1>3, IdsTyped, CanonicalTyped DEF OpenaiCall

(* A2A and ACP messages have any number of parts.                          *)
LEMMA A2aTyped ==
    ASSUME NEW w, NEW o, NEW i \in Ids, NEW ps \in Upto(MessageParts), w = Wire(o, i, Missing, ps)
    PROVE  Typed(A2aCall(w))
<1> DEFINE named == {j \in NameIn(ps) : ps[j].name # NoName}
           cap == IF named = {} THEN NoName ELSE ps[LastOf(named)].name
<1>1. w.op = o /\ w.id = i /\ w.parts = ps
  BY DEF Wire
<1>2. cap \in Capabilities \cup {NoName} /\ LastArgs(ps) \in Args \cup {Empty, Null}
  BY MessagesTyped
<1>3. PresentId(i) \in {NewId, NoName, "i1"}
  BY IdsTyped
<1>4. A2aCall(w) = Malformed \/ A2aCall(w) = Canonical(cap, LastArgs(ps), FirstText(ps), PresentId(i))
  BY <1>1 DEF A2aCall
<1> HIDE DEF cap
<1> QED
  BY <1>2, <1>3, <1>4, CanonicalTyped

(* An ACP message falls back on the agent of its envelope.                 *)
LEMMA AcpTyped ==
    ASSUME NEW w, NEW a \in Agents, NEW ps \in Upto(MessageParts),
           w = Wire(Missing, Missing, a, ps)
    PROVE  Typed(AcpCall(w))
<1> DEFINE cap == IF NameIn(ps) = {} THEN Name(a) ELSE ps[LastOf(NameIn(ps))].name
<1>1. w.agent = a /\ w.parts = ps
  BY DEF Wire
<1>2. cap \in Capabilities \cup {NoName} /\ LastArgs(ps) \in Args \cup {Empty, Null}
  BY MessagesTyped DEF Name, Agents
<1>3. AcpCall(w) = Canonical(cap, LastArgs(ps), FirstText(ps), NewId)
  BY <1>1 DEF AcpCall
<1> HIDE DEF cap
<1> QED
  BY <1>2, <1>3, CanonicalTyped

(* Every AGNTCY message is a text.                                         *)
LEMMA AgntcyTyped ==
    ASSUME NEW w, NEW a \in Agents,
           NEW ps \in Upto(TextParts), w = Wire(Missing, Missing, a, ps)
    PROVE  Typed(AgntcyCall(w))
<1> DEFINE actions == {i \in DOMAIN ps : ps[i].text.form = "json"}
           words == {i \in DOMAIN ps : ps[i].text.form # "json" /\ SomeText(ps[i].text)}
           text == IF words = {} THEN NoText ELSE ps[FirstOf(words)].text
<1>1. w.agent = a /\ w.parts = ps
  BY DEF Wire
<1>2. PICK k \in 0..MaxParts : ps \in [1..k -> TextParts]
  BY DEF Upto
<1>3. \A i \in DOMAIN ps : ps[i].text \in Texts
  BY <1>2, PartFields DEF TextParts
<1>4. \A t \in Texts : t.form = "json" => t.name \in Capabilities /\ t.args \in Args
  BY DEF Texts, EmptyText, Prose, JsonText, Text
<1>5. CASE actions = {}
  <2>1. AgntcyCall(w) = Call(Name(a), Empty, text, NewId)
    BY <1>1, <1>5 DEF AgntcyCall
  <2>2. Call(Name(a), Empty, text, NewId) = Canonical(Name(a), Empty, text, NewId)
    BY Marks DEF Canonical
  <2>3. Name(a) \in Capabilities \cup {NoName}
    BY DEF Name, Agents
  <2> HIDE DEF text
  <2> QED
    BY <2>1, <2>2, <2>3, CanonicalTyped, SMTT(30)
<1>6. CASE actions # {}
  <2> DEFINE last == ps[LastOf(actions)].text
  <2>1. k \in Nat /\ actions \subseteq 1..k
    BY <1>2, HubAssumption
  <2>2. LastOf(actions) \in actions
    BY <2>1, <1>6, LastInside, SMTT(30)
  <2>3. last.name \in Capabilities /\ last.args \in Args
    BY <2>2, <1>3, <1>4, SMTT(30)
  <2>4. AgntcyCall(w) = Call(last.name, last.args, text, NewId)
    BY <1>1, <1>6 DEF AgntcyCall
  <2> HIDE DEF text, last
  <2>5. Call(last.name, last.args, text, NewId) = Canonical(last.name, last.args, text, NewId)
    BY <2>3, HubAssumption DEF Canonical
  <2> QED
    BY <2>3, <2>4, <2>5, CanonicalTyped, SMTT(30)
<1> QED
  BY <1>5, <1>6

(* What any client writes decodes, or is Malformed.                        *)
LEMMA ClientTyped ==
    ASSUME NEW p \in Protocols, NEW w \in ClientWires(p)
    PROVE  Typed(ToCanonicalCall(p, w))
<1>1. CASE p = "mcp"
  <2>1. PICK o \in Methods, i \in Ids, d \in DataParts : w = Wire(o, i, Missing, <<d>>)
    BY <1>1 DEF ClientWires
  <2>2. PICK n \in Capabilities \cup {Missing, NoName}, a \in ArgValues : d = DataPart(n, a)
    BY DEF DataParts
  <2> QED
    BY <1>1, <2>1, <2>2, OneActionTyped, SMTT(30) DEF ToCanonicalCall
<1>2. CASE p = "gemini"
  <2>1. PICK i \in Ids, d \in DataParts : w = Wire(Missing, i, Missing, <<d>>)
    BY <1>2 DEF ClientWires
  <2>2. PICK n \in Capabilities \cup {Missing, NoName}, a \in ArgValues : d = DataPart(n, a)
    BY DEF DataParts
  <2> QED
    BY <1>2, <2>1, <2>2, OneActionTyped DEF ToCanonicalCall
<1>3. CASE p = "openai"
  <2>1. PICK i \in Ids, d \in ToolCalls : w = Wire(Missing, i, Missing, <<d>>)
    BY <1>3 DEF ClientWires
  <2>2. CASE d \in DataParts
    <3>1. PICK n \in Capabilities \cup {Missing, NoName}, a \in ArgValues : d = DataPart(n, a)
      BY <2>2 DEF DataParts
    <3> QED
      BY <1>3, <2>1, <3>1, OneActionTyped DEF ToCanonicalCall
  <2>3. CASE d \notin DataParts
    <3>1. PICK n \in Capabilities : d = JunkPart(n)
      BY <2>3 DEF ToolCalls
    <3> QED
      BY <1>3, <2>1, <3>1, JunkTyped, SMTT(30) DEF ToCanonicalCall
  <2> QED
    BY <2>2, <2>3
<1>4. CASE p = "a2a"
  <2>1. PICK o \in Methods, i \in {"i1", Missing}, ps \in Upto(MessageParts \ {JunkPart(Missing)}) :
            w = Wire(o, i, Missing, ps)
    BY <1>4 DEF ClientWires
  <2>2. i \in Ids /\ ps \in Upto(MessageParts)
    BY DEF Ids, Upto
  <2> QED
    BY <1>4, <2>1, <2>2, A2aTyped DEF ToCanonicalCall
<1>5. CASE p = "acp"
  <2>1. PICK a \in Agents, ps \in Upto(MessageParts) : w = Wire(Missing, Missing, a, ps)
    BY <1>5 DEF ClientWires
  <2> QED
    BY <1>5, <2>1, AcpTyped DEF ToCanonicalCall
<1>6. CASE p = "agntcy"
  <2>1. PICK a \in Agents, ps \in Upto(TextParts) :
            w = Wire(Missing, Missing, a, ps)
    BY <1>6 DEF ClientWires
  <2> QED
    BY <1>6, <2>1, AgntcyTyped DEF ToCanonicalCall
<1> QED
  BY <1>1, <1>2, <1>3, <1>4, <1>5, <1>6 DEF Protocols

-----------------------------------------------------------------------------
(* What a call c still carries of the call o the first hub decoded, once   *)
(* it has been written in the protocols of P.                              *)
Carries(o, P, c) ==
    /\ Typed(c) /\ c.cap = o.cap
    /\ o.cap # NoName => c.args = o.args
    /\ P \subseteq {"mcp", "a2a", "openai"} /\ o.id = "i1" => c.id = "i1"
    /\ P \subseteq {"a2a", "acp"} /\ SomeText(o.text) => c.text = o.text

(* The inductive invariant: the request on the way carries the call, and   *)
(* what a hub wrote decodes.                                               *)
HubInv ==
    /\ phase \in {"call", "rejected", "sent", "reply"} /\ hops \in 0..MaxHops
    /\ proto \in Protocols
    /\ phase # "reply" => Carries(origin, path, Arrived) /\ (hops > 0 => Arrived.ok)
    /\ GovernedIsDelivered

(* One more translation.                                                   *)
LEMMA CarriesOn ==
    ASSUME NEW o, NEW P, NEW c, NEW p, NEW d, Carries(o, P, c), Keeps(p, c, d)
    PROVE  Carries(o, P \cup {p}, d) /\ d.ok
  BY Zenon DEF Carries, Keeps

(* The client's own request.                                               *)
LEMMA HubInitInv == HubInit => HubInv
<1>1. ASSUME InitCall PROVE HubInv
  <2>1. Typed(Arrived) /\ Arrived = origin
    BY <1>1, ClientTyped DEF InitCall, Arrived
  <2>2. Carries(origin, path, Arrived)
    BY <2>1, Zenon DEF Carries
  <2> QED
    BY <1>1, <2>2, HubAssumption DEF InitCall, HubInv, GovernedIsDelivered
<1>2. ASSUME InitReply PROVE HubInv
  BY <1>2, HubAssumption DEF InitReply, HubInv, GovernedIsDelivered
<1> QED
  BY <1>1, <1>2 DEF HubInit

(* translate_call.                                                         *)
LEMMA TranslateKeepsInv ==
    ASSUME HubInv, NEW dst \in Protocols, TranslateCall(dst) PROVE HubInv'
<1> DEFINE c == ToCanonicalCall(proto, wire)
           d == ToCanonicalCall(dst, FromCanonicalCall(dst, c))
<1>1. phase = "call" /\ phase' = "call" /\ hops < MaxHops /\ hops' = hops + 1 /\ proto' = dst
      /\ path' = path \cup {dst} /\ origin' = origin /\ wire' = FromCanonicalCall(dst, c)
  BY DEF TranslateCall
<1>2. Carries(origin, path, c)
  BY <1>1 DEF HubInv, Arrived
<1>3. Keeps(dst, c, d)
  BY <1>2, HubReadsBack DEF Carries
<1>4. Carries(origin, path \cup {dst}, d) /\ d.ok
  BY <1>2, <1>3, CarriesOn
<1>5. Arrived' = d
  BY <1>1 DEF Arrived
<1> HIDE DEF d
<1>6. Carries(origin, path, Arrived)' /\ Arrived'.ok
  BY <1>1, <1>4, <1>5, Zenon DEF Carries
<1>7. hops' \in 0..MaxHops
  BY <1>1, HubAssumption DEF HubInv
<1>8. GovernedIsDelivered'
  BY <1>1 DEF GovernedIsDelivered
<1> QED
  BY <1>1, <1>6, <1>7, <1>8, Zenon DEF HubInv

(* route_call: what is handed to the agent is what was decided on.         *)
LEMMA RouteKeepsInv ==
    ASSUME HubInv, NEW dst \in {"mcp", "a2a", "acp"}, RouteCall(dst) PROVE HubInv'
<1> DEFINE c == ToCanonicalCall(proto, wire)
           w == FromCanonicalCall(dst, c)
           d == ToCanonicalCall(dst, w)
<1>1. phase = "call" /\ phase' = "sent" /\ hops < MaxHops /\ hops' = hops + 1 /\ proto' = dst
      /\ path' = path \cup {dst} /\ origin' = origin /\ wire' = w /\ sent' = Delivered(dst, c, w)
  BY DEF RouteCall
<1>2. Carries(origin, path, c)
  BY <1>1 DEF HubInv, Arrived
<1>3. Keeps(dst, c, d)
  BY <1>2, HubReadsBack DEF Carries, Protocols
<1>4. Carries(origin, path \cup {dst}, d) /\ d.ok
  BY <1>2, <1>3, CarriesOn
<1>5. Arrived' = d
  BY <1>1 DEF Arrived
<1>6. /\ sent'.to = dst /\ sent'.governed = c
      /\ dst = "mcp" => sent'.cap = w.parts[1].name /\ sent'.args = w.parts[1].args
      /\ dst # "mcp" => sent'.text = BestText(d)
  BY <1>1 DEF Delivered
<1>7. dst = "mcp" => w.parts[1].name = c.cap /\ w.parts[1].args = c.args
  BY DEF FromCanonicalCall, McpWire, Wire, DataPart
<1> HIDE DEF c, w, d
<1>8. GovernedIsDelivered'
  <2>1. sent'.governed.cap = origin'.cap
    BY <1>1, <1>2, <1>6, Zenon DEF Carries
  <2>2. ASSUME path' \subseteq {"a2a", "acp"}, SomeText(origin'.text), dst # "mcp"
        PROVE  sent'.text = origin'.text
    <3>1. SomeText(origin.text) /\ d.text = origin.text
      BY <1>1, <1>4, <2>2, Zenon DEF Carries
    <3> QED
      BY <1>1, <1>6, <2>2, <3>1, Zenon DEF BestText
  <2> QED
    BY <1>6, <1>7, <2>1, <2>2, Zenon DEF GovernedIsDelivered
<1>9. Carries(origin, path, Arrived)' /\ Arrived'.ok
  BY <1>1, <1>4, <1>5, Zenon DEF Carries
<1>10. hops' \in 0..MaxHops
  BY <1>1, HubAssumption DEF HubInv
<1>11. proto' \in Protocols
  BY <1>1 DEF Protocols
<1> QED
  BY <1>1, <1>8, <1>9, <1>10, <1>11, Zenon DEF HubInv

(* Refusals and replies leave the call alone.                              *)
LEMMA OtherHubSteps ==
    ASSUME HubInv, RefuseCall \/ (\E dst \in Protocols : TranslateResult(dst)) \/ UNCHANGED hubVars
    PROVE  HubInv'
<1>1. CASE RefuseCall
  <2>1. phase = "call" /\ phase' = "rejected" /\ UNCHANGED <<proto, wire, origin, path, hops>>
    BY <1>1 DEF RefuseCall, callVars
  <2>2. Arrived' = Arrived
    BY <2>1 DEF Arrived
  <2>3. Carries(origin, path, Arrived)' /\ (hops' > 0 => Arrived'.ok)
    BY <2>1, <2>2, Zenon DEF HubInv, Carries
  <2> QED
    BY <2>1, <2>3, Zenon DEF HubInv, GovernedIsDelivered
<1>2. ASSUME NEW dst \in Protocols, TranslateResult(dst) PROVE HubInv'
  <2>1. phase = "reply" /\ phase' = "reply" /\ hops < MaxHops /\ hops' = hops + 1 /\ proto' = dst
    BY <1>2 DEF TranslateResult
  <2> QED
    BY <2>1, HubAssumption, SMTT(30) DEF HubInv, GovernedIsDelivered
<1>3. CASE UNCHANGED hubVars
  <2>1. UNCHANGED <<phase, proto, wire, origin, path, hops, sent>>
    BY <1>3 DEF hubVars
  <2>2. Arrived' = Arrived
    BY <2>1 DEF Arrived
  <2> QED
    BY <2>1, <2>2, Zenon DEF HubInv, Carries, GovernedIsDelivered
<1> QED
  BY <1>1, <1>2, <1>3

(* The invariant says what the property says.                              *)
LEMMA HubInvImplies == HubInv => IntentKept
<1> SUFFICES ASSUME HubInv PROVE IntentKept
  OBVIOUS
<1>1. HubTypeOK
  BY Zenon DEF HubInv, HubTypeOK, Carries, Typed
<1>2. ActionKept /\ NoActionFromText /\ IdKept
  <2>1. phase \in {"call", "sent"} => phase # "reply"
    OBVIOUS
  <2> QED
    BY <2>1, Zenon DEF HubInv, ActionKept, NoActionFromText, IdKept, Carries
<1> QED
  BY <1>1, <1>2 DEF HubInv, IntentKept

(* protocols/registry.py and gateway.route_call: for any capabilities and  *)
(* arguments, messages of any number of parts and chains of any length, a  *)
(* call keeps its action and its id, acquires no action from its text, and *)
(* the agent receives what was decided on.                                 *)
THEOREM IntentPreserved == HubSpec => []IntentKept
<1>1. HubInit => HubInv
  BY HubInitInv
<1>2. HubInv /\ [HubNext]_hubVars => HubInv'
  BY TranslateKeepsInv, RouteKeepsInv, OtherHubSteps DEF HubNext
<1>3. HubInv => IntentKept
  BY HubInvImplies
<1> QED
  BY <1>1, <1>2, <1>3, PTL DEF HubSpec

=============================================================================
