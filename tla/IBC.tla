------------------------------- MODULE IBC ----------------------------------
(***************************************************************************)
(* The IBC message types of types/ibc.go and their accessors.  Each        *)
(* channel message is a Go struct of optional pointers, one per variant of *)
(* the Rust enum it mirrors (open_init / open_try, open_ack /             *)
(* open_confirm, close_init / close_confirm, all json "omitempty"), so a  *)
(* decoded message may carry any subset of its variants.  GetChannel      *)
(* reads the first variant and, when it is nil, dereferences the second   *)
(* without a check; GetCounterVersion reads the variant that carries a    *)
(* counterparty version.  IBCTimeoutBlock.IsZero tests the zero height.  *)
(*                                                                         *)
(* Channels and versions are model values: the accessors only move them.   *)
(* A nil pointer dereference is the outcome Panic.  The reference is the   *)
(* Rust enum: a value of one variant, encoded as the struct with exactly  *)
(* that pointer set.                                                       *)
(***************************************************************************)
EXTENDS Naturals

CONSTANTS
  Channels,   \* IBCChannel values (endpoints, order, version, connection)
  Versions,   \* counterparty version strings
  Heights,    \* the revision and height numbers of a timeout block
  Nil,        \* the nil pointer
  Panic       \* the run-time panic of a nil pointer dereference

\* The empty string GetCounterVersion returns for a variant without a version.
NoVersion == ""

ASSUME IBCAssumption ==
  /\ Nil \notin Channels /\ Panic \notin Channels
  /\ Nil \notin [channel : Channels] \cup [channel : Channels, counterparty_version : Versions]
  /\ NoVersion \notin Versions
  /\ Heights \subseteq Nat /\ 0 \in Heights

VARIABLES
  msg,   \* the message the host has decoded and is handling
  out,   \* what the accessors returned for it
  done   \* the accessors have run on msg

vars == <<msg, out, done>>

NoMsg == [kind |-> "None"]

\* The accessors' results before any is filled in.
Blank == [channel |-> Nil, version |-> <<NoVersion, FALSE>>, zero |-> FALSE]

\* The variant structs IBCOpenInit ... IBCCloseConfirm, and the optional
\* pointer to one of them.
Opt(S) == S \cup {Nil}

WithChannel == [channel : Channels]

WithVersion == [channel : Channels, counterparty_version : Versions]

IBCChannelOpenMsg == [open_init : Opt(WithChannel), open_try : Opt(WithVersion)]

IBCChannelConnectMsg == [open_ack : Opt(WithVersion), open_confirm : Opt(WithChannel)]

IBCChannelCloseMsg == [close_init : Opt(WithChannel), close_confirm : Opt(WithChannel)]

IBCTimeoutBlock == [revision : Heights, height : Heights]

\* Every message json.Unmarshal can produce, tagged by its type.
Msgs ==
  [kind : {"Open"}, body : IBCChannelOpenMsg]
    \cup [kind : {"Connect"}, body : IBCChannelConnectMsg]
    \cup [kind : {"Close"}, body : IBCChannelCloseMsg]
    \cup [kind : {"Timeout"}, body : IBCTimeoutBlock]

-----------------------------------------------------------------------------
(* The accessors.                                                          *)

\* p.Channel: a panic when p is nil.
Deref(p) == IF p = Nil THEN Panic ELSE p.channel

OpenGetChannel(m) ==
  IF m.open_init # Nil THEN m.open_init.channel ELSE Deref(m.open_try)

\* Mutant: the version is taken from the variant that has none.
OpenGetCounterVersionWrongVariant(m) ==
  IF m.open_init # Nil THEN <<NoVersion, TRUE>> ELSE <<NoVersion, FALSE>>

OpenGetCounterVersion(m) ==
  IF m.open_try # Nil THEN <<m.open_try.counterparty_version, TRUE>>
  ELSE <<NoVersion, FALSE>>

ConnectGetChannel(m) ==
  IF m.open_ack # Nil THEN m.open_ack.channel ELSE Deref(m.open_confirm)

\* Mutant: the fall-through answers ("", true).
ConnectGetCounterVersionOkAlways(m) ==
  IF m.open_ack # Nil THEN <<m.open_ack.counterparty_version, TRUE>>
  ELSE <<NoVersion, TRUE>>

ConnectGetCounterVersion(m) ==
  IF m.open_ack # Nil THEN <<m.open_ack.counterparty_version, TRUE>>
  ELSE <<NoVersion, FALSE>>

\* Mutant: the first variant is dereferenced without the nil check.
CloseGetChannelNoCheck(m) == Deref(m.close_init)

CloseGetChannel(m) ==
  IF m.close_init # Nil THEN m.close_init.channel ELSE Deref(m.close_confirm)

\* Mutant: either coordinate being zero is taken for the zero height.
IsZeroEither(t) == t.revision = 0 \/ t.height = 0

IsZero(t) == t.revision = 0 /\ t.height = 0

\* What the host reads from a message: its channel and counterparty
\* version, or whether a timeout block is the zero height.
Accessors(m) ==
  CASE m.kind = "Open" ->
         [Blank EXCEPT !.channel = OpenGetChannel(m.body),
                       !.version = OpenGetCounterVersion(m.body)]
    [] m.kind = "Connect" ->
         [Blank EXCEPT !.channel = ConnectGetChannel(m.body),
                       !.version = ConnectGetCounterVersion(m.body)]
    [] m.kind = "Close" -> [Blank EXCEPT !.channel = CloseGetChannel(m.body)]
    [] m.kind = "Timeout" -> [Blank EXCEPT !.zero = IsZero(m.body)]

-----------------------------------------------------------------------------
Init ==
  /\ msg = NoMsg
  /\ out = Blank
  /\ done = FALSE

(* A message arrives, decoded from its json form, once the last one has   *)
(* been handled.                                                           *)
Receive(m) ==
  /\ msg = NoMsg \/ done
  /\ msg' = m
  /\ out' = Blank
  /\ done' = FALSE

(* The handler calls the accessors of the message's type.                  *)
Handle ==
  /\ msg # NoMsg
  /\ ~done
  /\ out' = Accessors(msg)
  /\ done' = TRUE
  /\ UNCHANGED msg

Next == (\E m \in Msgs : Receive(m)) \/ Handle

Spec == Init /\ [][Next]_vars

-----------------------------------------------------------------------------
(* The reference: the Rust enums IbcChannelOpenMsg, IbcChannelConnectMsg   *)
(* and IbcChannelCloseMsg, a value of exactly one variant, and the struct  *)
(* serde encodes it to.                                                    *)
(* A variant without a counterparty version ignores the version field.     *)
Enums ==
  [kind : {"Open", "Connect", "Close"}, variant : {1, 2}, channel : Channels,
   version : Versions]

Encode(e) ==
  LET ch    == [channel |-> e.channel]
      chv   == [channel |-> e.channel, counterparty_version |-> e.version]
      first == e.variant = 1
  IN  CASE e.kind = "Open" ->
             [kind |-> "Open", body |-> [open_init |-> IF first THEN ch ELSE Nil,
                                         open_try |-> IF first THEN Nil ELSE chv]]
        [] e.kind = "Connect" ->
             [kind |-> "Connect", body |-> [open_ack |-> IF first THEN chv ELSE Nil,
                                            open_confirm |-> IF first THEN Nil ELSE ch]]
        [] e.kind = "Close" ->
             [kind |-> "Close", body |-> [close_init |-> IF first THEN ch ELSE Nil,
                                          close_confirm |-> IF first THEN Nil ELSE ch]]

\* The variant that carries a counterparty version: OpenTry, OpenAck.
HasVersion(e) == (e.kind = "Open" /\ e.variant = 2) \/ (e.kind = "Connect" /\ e.variant = 1)

\* The lexicographic order (revision, height) of the type's comment.
HeightLeq(a, b) ==
  a.revision < b.revision \/ (a.revision = b.revision /\ a.height <= b.height)

Handled == msg # NoMsg /\ done

-----------------------------------------------------------------------------
(* Properties.                                                             *)

(* The accessors' results are of their Go types, and GetCounterVersion's  *)
(* (string, bool) is a comma-ok pair: ok exactly when a counterparty      *)
(* version is returned, "" with false otherwise.                          *)
TypeOK ==
  /\ msg \in Msgs \cup {NoMsg}
  /\ done \in BOOLEAN
  /\ out \in [channel : Channels \cup {Nil, Panic},
              version : (Versions \X {TRUE}) \cup {<<NoVersion, FALSE>>},
              zero : BOOLEAN]

(* On every message the Rust side can send (one variant of the enum),      *)
(* GetChannel returns that variant's channel and GetCounterVersion returns *)
(* its counterparty version exactly when the variant has one.              *)
MatchesEnum ==
  \A e \in Enums :
    Handled /\ msg = Encode(e) =>
      /\ out.channel = e.channel
      /\ out.version = IF HasVersion(e) THEN <<e.version, TRUE>> ELSE <<NoVersion, FALSE>>

(* GetChannel panics on a nil pointer exactly for a channel message with  *)
(* no variant set (json "{}"); a message with either variant, or both,    *)
(* is answered.                                                            *)
PanicsOnlyWithoutVariant ==
  Handled /\ msg.kind \in {"Open", "Connect", "Close"} =>
    (out.channel = Panic <=> \A f \in DOMAIN msg.body : msg.body[f] = Nil)

(* IsZero holds exactly of the least height in the (revision, height)     *)
(* order the comment of IBCTimeoutBlock gives.                             *)
ZeroIsLeastHeight ==
  Handled /\ msg.kind = "Timeout" =>
    (out.zero <=> \A u \in IBCTimeoutBlock : HeightLeq(msg.body, u))

=============================================================================
