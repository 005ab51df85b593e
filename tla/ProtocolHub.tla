---------------------------- MODULE ProtocolHub ----------------------------
(***************************************************************************)
(* The canonical hub of src/protocols: six adapters, each of which decodes *)
(* a request of its protocol to a CanonicalCall and encodes a              *)
(* CanonicalCall as a request, and ProtocolRegistry.translate_call and     *)
(* translate_result, which compose a decoder with an encoder.  A call      *)
(* travels through any chain of hubs: it is written by a client, relayed   *)
(* by translate_call hop after hop, and handed to an agent by              *)
(* GovernedGateway.route_call, which decides on what it decodes from the   *)
(* source and invokes what it has encoded for the destination.             *)
(*                                                                         *)
(* A request is what the decoders tell apart: the JSON-RPC method or task  *)
(* state, an id, the agent named in the envelope, and a sequence of parts. *)
(* A part is structured data, text, or JSON that does not parse.  A text   *)
(* is prose, or the JSON rendering of an action, which json.loads turns    *)
(* back into that action.                                                  *)
(***************************************************************************)
EXTENDS Naturals, Sequences, SequencesExt

CONSTANTS Capabilities,       \* capability (tool, skill, function) names
          Args,       \* nonempty argument objects
          MaxParts,   \* bound: parts of a client's request, blocks of a reply
          MaxHops     \* bound: translations of one call or reply

Protocols == {"mcp", "a2a", "acp", "openai", "gemini", "agntcy"}
Empty == "{}"                        \* the empty argument object
NoName == ""                         \* a name, an id or a text that is empty
Missing == "missing"                 \* a key the request leaves out
Null == "null"                       \* a key whose value is null
NewId == "generated"                 \* an id made by CanonicalCall's default

(* No name and no argument object is one of the marks above.               *)
ASSUME HubAssumption ==
    /\ Capabilities \cap {Missing, NoName} = {} /\ Args \cap {Missing, Null, Empty} = {}
    /\ MaxParts \in Nat /\ MaxHops \in Nat

Text(form, name, args) == [form |-> form, name |-> name, args |-> args]
NoText == Text("none", NoName, Empty)
EmptyText == Text("empty", NoName, Empty)
Prose == Text("prose", NoName, Empty)
JsonText(name, args) == Text("json", name, args)
CallText(name) == Text("call", name, Empty)
SomeText(t) == t.form \notin {"none", "empty"}

DataPart(name, args) == [kind |-> "data", name |-> name, args |-> args, text |-> NoText]
TextPart(t) == [kind |-> "text", name |-> Missing, args |-> Missing, text |-> t]
JunkPart(name) == [kind |-> "junk", name |-> name, args |-> Missing, text |-> NoText]

Wire(op, id, agent, parts) == [op |-> op, id |-> id, agent |-> agent, parts |-> parts]
Call(cap, args, text, id) == [ok |-> TRUE, cap |-> cap, args |-> args, text |-> text, id |-> id]
Malformed == [ok |-> FALSE, cap |-> NoName, args |-> Empty, text |-> NoText, id |-> NewId]

VARIABLES phase,    \* "call", "rejected", "sent" of a call; "reply" of a result
          proto,    \* the protocol the request or reply is now written in
          wire,     \* the request
          origin,   \* what the first hub decodes from the client's request
          path,     \* the protocols the call has been written in
          hops,     \* translations so far
          sent,     \* what route_call decided on and what the agent received
          blocks,   \* the reply: its text blocks, as sequences of words
          first     \* the text of the reply as the first hub reads it

callVars == <<wire, origin, path, sent>>
replyVars == <<blocks, first>>
hubVars == <<phase, proto, wire, origin, path, hops, sent, blocks, first>>

-----------------------------------------------------------------------------
(* Decoding requests.                                                      *)

Given(x, default) == IF x = Missing THEN default ELSE x
Name(n) == IF n = Missing THEN NoName ELSE n

(* CanonicalCall.__post_init__: arguments that are not an object raise.    *)
Canonical(cap, args, text, id) ==
    IF args = Null THEN Malformed ELSE Call(cap, args, text, id)

(* mcp, a2a: an id that is not null is kept, whatever it is.               *)
PresentIdNull(id) == id                                \* mutant: null kept as an id
PresentId(id) == IF id \in {Missing, Null} THEN NewId ELSE id
(* openai, gemini: only an id that is not empty is kept.                   *)
TruthyId(id) == IF id \in {Missing, Null, NoName} THEN NewId ELSE id

McpCall(w) ==
    LET p == w.parts[1] IN
    IF w.op \notin {Missing, "call"} THEN Malformed
    ELSE Canonical(Name(p.name), IF p.args \in {Missing, Null} THEN Empty ELSE p.args,
                   NoText, PresentId(w.id))

(* Messages of several parts: the text is the first text part, and a later *)
(* data part overrides the fields it gives of an earlier one.              *)
FirstOf(S) == CHOOSE i \in S : \A j \in S : i <= j
LastOf(S) == CHOOSE i \in S : \A j \in S : j <= i
TextIn(ps) == {i \in DOMAIN ps : ps[i].kind = "text"}
NameIn(ps) == {i \in DOMAIN ps : ps[i].kind = "data" /\ ps[i].name # Missing}
ArgsIn(ps) == {i \in DOMAIN ps : ps[i].kind = "data" /\ ps[i].args # Missing}
FirstText(ps) == IF TextIn(ps) = {} THEN NoText ELSE ps[FirstOf(TextIn(ps))].text
LastArgs(ps) == IF ArgsIn(ps) = {} THEN Empty ELSE ps[LastOf(ArgsIn(ps))].args

(* A second data part with a name is refused.                              *)
A2aCall(w) ==
    LET named == {i \in NameIn(w.parts) : w.parts[i].name # NoName} IN
    IF w.op \notin {Missing, "call"} \/ \E i, j \in named : i # j THEN Malformed
    ELSE Canonical(IF named = {} THEN NoName ELSE w.parts[LastOf(named)].name,
                   LastArgs(w.parts), FirstText(w.parts), PresentId(w.id))

(* The last JSON part that parses names the action.                        *)
AcpCall(w) ==
    LET named == NameIn(w.parts) IN
    Canonical(IF named = {} THEN Name(w.agent) ELSE w.parts[LastOf(named)].name,
              LastArgs(w.parts), FirstText(w.parts), NewId)

(* Arguments that do not parse are read as no arguments.                   *)
OpenaiCall(w) ==
    LET p == w.parts[1] IN
    Canonical(Name(p.name), IF p.kind = "junk" THEN Empty ELSE Given(p.args, Empty),
              NoText, TruthyId(w.id))

GeminiCall(w) ==
    LET p == w.parts[1] IN
    Canonical(Name(p.name), IF p.args \in {Missing, Null} THEN Empty ELSE p.args,
              NoText, TruthyId(w.id))

(* Every message is a text; one that parses to an object with a name is an *)
(* action, and the last such action is the call.                           *)
AgntcyCall(w) ==
    LET ps == w.parts
        actions == {i \in DOMAIN ps : ps[i].text.form = "json"}
        words == {i \in DOMAIN ps : ps[i].text.form # "json" /\ SomeText(ps[i].text)}
        text == IF words = {} THEN NoText ELSE ps[FirstOf(words)].text
    IN  IF actions = {} THEN Call(Name(w.agent), Empty, text, NewId)
        ELSE Call(ps[LastOf(actions)].text.name, ps[LastOf(actions)].text.args, text, NewId)

ToCanonicalCall(p, w) ==
    CASE p = "mcp" -> McpCall(w) [] p = "a2a" -> A2aCall(w) [] p = "acp" -> AcpCall(w)
      [] p = "openai" -> OpenaiCall(w) [] p = "gemini" -> GeminiCall(w)
      [] p = "agntcy" -> AgntcyCall(w)

-----------------------------------------------------------------------------
(* Encoding requests.                                                      *)

McpWire(c) == Wire("call", c.id, Missing, <<DataPart(c.cap, c.args)>>)
A2aWireNoData(c) ==                                    \* mutant: action only as prose
    Wire("call", c.id, Missing, <<TextPart(IF SomeText(c.text) THEN c.text ELSE CallText(c.cap))>>)
A2aWire(c) ==
    Wire("call", c.id, Missing,
         <<TextPart(IF SomeText(c.text) THEN c.text ELSE CallText(c.cap))>>
             \o IF c.cap = NoName THEN <<>> ELSE <<DataPart(c.cap, c.args)>>)
AcpWireNoText(c) ==                                    \* mutant: the text part is forgotten
    Wire(Missing, Missing, IF c.cap = NoName THEN "agent" ELSE c.cap, <<DataPart(c.cap, c.args)>>)
AcpWire(c) ==
    Wire(Missing, Missing, IF c.cap = NoName THEN "agent" ELSE c.cap,
         <<DataPart(c.cap, c.args)>> \o IF SomeText(c.text) THEN <<TextPart(c.text)>> ELSE <<>>)
OpenaiWireNoId(c) == Wire(Missing, NewId, Missing, <<DataPart(c.cap, c.args)>>)   \* mutant
OpenaiWire(c) == Wire(Missing, c.id, Missing, <<DataPart(c.cap, c.args)>>)
GeminiWire(c) == Wire(Missing, Missing, Missing, <<DataPart(c.cap, c.args)>>)
AgntcyWireProse(c) ==                                  \* mutant: the text as a second message
    Wire(Missing, Missing, IF c.cap = NoName THEN "agent" ELSE c.cap,
         <<TextPart(JsonText(c.cap, c.args))>>
             \o IF SomeText(c.text) THEN <<TextPart(c.text)>> ELSE <<>>)
AgntcyWire(c) ==
    Wire(Missing, Missing, IF c.cap = NoName THEN "agent" ELSE c.cap,
         <<TextPart(JsonText(c.cap, c.args))>>)

FromCanonicalCall(p, c) ==
    CASE p = "mcp" -> McpWire(c) [] p = "a2a" -> A2aWire(c) [] p = "acp" -> AcpWire(c)
      [] p = "openai" -> OpenaiWire(c) [] p = "gemini" -> GeminiWire(c)
      [] p = "agntcy" -> AgntcyWire(c)

Routable(c) == c.ok /\ (c.cap # NoName \/ SomeText(c.text) \/ c.args # Empty)

(* CanonicalCall.best_text: the words an argument object is rendered to    *)
(* are abstracted to the object.                                           *)
BestText(c) ==
    IF SomeText(c.text) THEN c.text
    ELSE IF c.args # Empty THEN Text("pairs", NoName, c.args)
    ELSE Text("name", c.cap, Empty)

-----------------------------------------------------------------------------
(* Replies.  A block is a sequence of words and spaces.                    *)

Space == " "
Block == {<<>>, <<"w1">>, <<"w2">>, <<Space, "w1">>}

Join(bs) == IF bs = <<>> THEN <<>> ELSE FoldLeft(LAMBDA acc, b : acc \o <<Space>> \o b, bs[1], Tail(bs))
Strip(t) ==
    LET solid == {i \in 1..Len(t) : t[i] # Space} IN
    IF solid = {} THEN <<>>
    ELSE SubSeq(t, CHOOSE i \in solid : \A j \in solid : i <= j,
                   CHOOSE i \in solid : \A j \in solid : j <= i)
ResultText(bs) == Strip(Join(bs))

(* The blocks a decoder makes of a reply: MCP keeps them, the others join  *)
(* theirs to one, and AGNTCY skips empty messages.                         *)
JoinedResult(bs) == <<Join(bs)>>
AgntcyResult(bs) == <<Join(SelectSeq(bs, LAMBDA b : b # <<>>))>>
ToCanonicalResult(p, bs) ==
    CASE p = "mcp" -> bs
      [] p = "agntcy" -> AgntcyResult(bs)
      [] OTHER -> JoinedResult(bs)
FromCanonicalResultFirst(p, bs) ==                     \* mutant: only the first block
    IF bs = <<>> THEN <<>> ELSE <<bs[1]>>
FromCanonicalResult(p, bs) == IF p = "mcp" THEN bs ELSE <<ResultText(bs)>>

-----------------------------------------------------------------------------
(* What clients and agents write.                                          *)

ArgValues == Args \cup {Empty, Missing, Null}
Ids == {Missing, NoName, "i1"}
NoWire == Wire(Missing, Missing, Missing, <<>>)
NoneSent == [to |-> Missing, governed |-> Malformed, cap |-> NoName, args |-> Empty, text |-> NoText]

Texts == {EmptyText, Prose} \cup {JsonText(c, a) : c \in Capabilities, a \in Args}
DataParts == {DataPart(n, a) : n \in Capabilities \cup {Missing, NoName}, a \in ArgValues}
TextParts == {TextPart(t) : t \in Texts}
MessageParts == DataParts \cup TextParts \cup {JunkPart(Missing)}
ToolCalls == DataParts \cup {JunkPart(n) : n \in Capabilities}
Methods == {Missing, "call", "other"}
Agents == Capabilities \cup {Missing}
Upto(S) == UNION {[1..k -> S] : k \in 0..MaxParts}

ClientWires(p) ==
    CASE p = "mcp" -> {Wire(o, i, Missing, <<d>>) : o \in Methods, i \in Ids, d \in DataParts}
      [] p = "a2a" -> {Wire(o, i, Missing, ps) : o \in Methods, i \in {"i1", Missing},
                          ps \in Upto(MessageParts \ {JunkPart(Missing)})}
      [] p = "acp" -> {Wire(Missing, Missing, a, ps) : a \in Agents, ps \in Upto(MessageParts)}
      [] p = "openai" -> {Wire(Missing, i, Missing, <<d>>) : i \in Ids, d \in ToolCalls}
      [] p = "gemini" -> {Wire(Missing, i, Missing, <<d>>) : i \in Ids, d \in DataParts}
      [] p = "agntcy" -> {Wire(Missing, Missing, a, ps) : a \in Agents, ps \in Upto(TextParts)}

InitCall ==
    /\ phase = "call"
    /\ proto \in Protocols
    /\ wire \in ClientWires(proto)
    /\ origin = ToCanonicalCall(proto, wire)
    /\ path = {proto} /\ hops = 0 /\ sent = NoneSent
    /\ blocks = <<>> /\ first = <<>>

InitReply ==
    /\ phase = "reply"
    /\ proto \in Protocols
    /\ blocks \in IF proto \in {"mcp", "a2a", "acp", "agntcy"} THEN Upto(Block) ELSE {<<b>> : b \in Block}
    /\ first = ResultText(ToCanonicalResult(proto, blocks))
    /\ wire = NoWire /\ origin = Malformed /\ path = {} /\ hops = 0 /\ sent = NoneSent

HubInit == InitCall \/ InitReply

-----------------------------------------------------------------------------
(* ProtocolRegistry.translate_call: what decodes to nothing is refused.    *)
TranslateCall(dst) ==
    LET c == ToCanonicalCall(proto, wire) IN
    /\ phase = "call" /\ hops < MaxHops
    /\ Routable(c)
    /\ wire' = FromCanonicalCall(dst, c)
    /\ proto' = dst /\ path' = path \cup {dst} /\ hops' = hops + 1
    /\ UNCHANGED <<phase, origin, sent, replyVars>>

RefuseCall ==
    /\ phase = "call"
    /\ ~Routable(ToCanonicalCall(proto, wire))
    /\ phase' = "rejected"
    /\ UNCHANGED <<proto, hops, callVars, replyVars>>

(* route_call with a registered target: the capability decoded from the    *)
(* source is what the target's allowlist, the authority and the policy     *)
(* decide on; the call is translated and invoke_target hands an MCP tool   *)
(* its name and arguments, an A2A or ACP agent one text.                   *)
Delivered(dst, c, w) ==
    IF dst = "mcp"
    THEN [to |-> dst, governed |-> c, cap |-> w.parts[1].name, args |-> w.parts[1].args, text |-> NoText]
    ELSE [to |-> dst, governed |-> c, cap |-> NoName, args |-> Empty,
          text |-> BestText(ToCanonicalCall(dst, w))]

RouteCall(dst) ==
    LET c == ToCanonicalCall(proto, wire)
        w == FromCanonicalCall(dst, c)
    IN  /\ phase = "call" /\ hops < MaxHops
        /\ Routable(c) /\ c.cap \in Capabilities
        /\ wire' = w /\ proto' = dst /\ path' = path \cup {dst} /\ hops' = hops + 1
        /\ sent' = Delivered(dst, c, w)
        /\ phase' = "sent"
        /\ UNCHANGED <<origin, replyVars>>

(* ProtocolRegistry.translate_result refuses nothing.                      *)
TranslateResult(dst) ==
    /\ phase = "reply" /\ hops < MaxHops
    /\ blocks' = FromCanonicalResult(dst, ToCanonicalResult(proto, blocks))
    /\ proto' = dst /\ hops' = hops + 1
    /\ UNCHANGED <<phase, callVars, first>>

HubNext ==
    \/ \E dst \in Protocols : TranslateCall(dst) \/ TranslateResult(dst)
    \/ \E dst \in {"mcp", "a2a", "acp"} : RouteCall(dst)
    \/ RefuseCall

HubSpec == HubInit /\ [][HubNext]_hubVars

-----------------------------------------------------------------------------
Arrived == ToCanonicalCall(proto, wire)

(* What the canonical layer holds has its types: every request a hub has   *)
(* written decodes again, with an argument object and an id.               *)
HubTypeOK ==
    /\ phase \in {"call", "rejected", "sent", "reply"} /\ hops \in 0..MaxHops
    /\ (phase # "reply" /\ hops > 0) =>
          /\ Arrived.ok /\ Arrived.args \in Args \cup {Empty}
          /\ Arrived.cap \in Capabilities \cup {NoName} /\ Arrived.id \in {NewId, NoName, "i1"}

(* Any-to-any translation preserves intent: through any chain of hubs a    *)
(* call that names a capability still names it, with the same arguments    *)
(* (tests/test_protocols_conformance.py checks one hop of one call).       *)
ActionKept ==
    (phase \in {"call", "sent"} /\ origin.cap # NoName) =>
        Arrived.cap = origin.cap /\ Arrived.args = origin.args

(* A call without a capability never acquires one on its way: neither the  *)
(* placeholder agent of the ACP and AGNTCY envelopes, nor the "call:" text *)
(* of A2A, nor prose that happens to be JSON becomes an executable action. *)
NoActionFromText ==
    (phase = "call" /\ origin.cap = NoName) => Arrived.cap = NoName

(* What is decided on is what is done: the tool an MCP server is asked to  *)
(* run, with its arguments, is the one route_call decoded from the source; *)
(* and where every protocol on the way carries prose, the agent receives   *)
(* the client's own words.                                                 *)
GovernedIsDelivered ==
    phase = "sent" =>
        /\ sent.to = "mcp" => sent.cap = sent.governed.cap /\ sent.args = sent.governed.args
        /\ sent.governed.cap = origin.cap
        /\ (sent.to # "mcp" /\ path \subseteq {"a2a", "acp"} /\ SomeText(origin.text))
               => sent.text = origin.text

(* Requests stay correlated: a client's id survives every chain of         *)
(* protocols that have one.                                                *)
IdKept ==
    (phase \in {"call", "sent"} /\ path \subseteq {"mcp", "a2a", "openai"} /\ origin.id = "i1")
        => Arrived.id = "i1"

(* The text of a reply, as the first hub reads it, is what every later     *)
(* protocol on the way back carries.                                       *)
ReplyTextKept ==
    phase = "reply" => ResultText(ToCanonicalResult(proto, blocks)) = first

(* protocols/: through any chain of hubs a call keeps its action and its   *)
(* id, acquires no action from its text, and is delivered as it was        *)
(* decided on.                                                             *)
IntentKept ==
    /\ HubTypeOK /\ ActionKept /\ NoActionFromText /\ GovernedIsDelivered /\ IdKept

=============================================================================
