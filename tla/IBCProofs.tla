----------------------------- MODULE IBCProofs ------------------------------
(***************************************************************************)
(* Proofs of the IBC getter properties for every set of channels, versions *)
(* and heights.  What the handler returned is always the getters applied  *)
(* to the message it holds (IBCInv); the properties are then facts about   *)
(* the getters themselves, one lemma each.                                 *)
(***************************************************************************)
EXTENDS IBC, TLAPS

\* The type of the getters' results.
OutType ==
  [channel : Channels \cup {Nil, Panic},
   version : (Versions \X {TRUE}) \cup {<<NoVersion, FALSE>>}, zero : BOOLEAN]

\* The inductive invariant: out is Blank until the getters run, and then
\* exactly what they return for msg.
IBCInv ==
  /\ msg \in Msgs \cup {NoMsg}
  /\ done \in BOOLEAN
  /\ done => msg # NoMsg
  /\ out = IF done THEN Accessors(msg) ELSE Blank

-----------------------------------------------------------------------------
(* Lemmas about the getters.                                               *)

\* A pointer that is set is a struct value, never nil.
LEMMA SetIsNotNil ==
  ASSUME NEW c \in Channels, NEW v \in Versions
  PROVE  /\ [channel |-> c] # Nil
         /\ [channel |-> c, counterparty_version |-> v] # Nil
<1>1. [channel |-> c] \in [channel : Channels]
  OBVIOUS
<1>2. [channel |-> c, counterparty_version |-> v]
        \in [channel : Channels, counterparty_version : Versions]
  OBVIOUS
<1>. QED
  BY <1>1, <1>2, IBCAssumption

\* Deref of an optional pointer: its channel, or Panic exactly when nil.
LEMMA DerefFacts ==
  ASSUME NEW p \in Opt(WithChannel) \cup Opt(WithVersion)
  PROVE  /\ Deref(p) \in Channels \cup {Panic}
         /\ Deref(p) = Panic <=> p = Nil
BY IBCAssumption DEF Deref, Opt, WithChannel, WithVersion

\* What the getters return on each message type.
LEMMA AccessorsType ==
  ASSUME NEW m \in Msgs
  PROVE  Accessors(m) \in OutType
<1>1. CASE m.kind = "Open"
  <2>1. m.body \in IBCChannelOpenMsg
    BY <1>1 DEF Msgs
  <2>2. OpenGetChannel(m.body) \in Channels \cup {Panic}
    BY <2>1, DerefFacts DEF OpenGetChannel, IBCChannelOpenMsg, Opt, WithChannel
  <2>3. OpenGetCounterVersion(m.body) \in (Versions \X {TRUE}) \cup {<<NoVersion, FALSE>>}
    BY <2>1 DEF OpenGetCounterVersion, IBCChannelOpenMsg, Opt, WithVersion
  <2>. QED
    BY <1>1, <2>2, <2>3 DEF Accessors, Blank, OutType
<1>2. CASE m.kind = "Connect"
  <2>1. m.body \in IBCChannelConnectMsg
    BY <1>2 DEF Msgs
  <2>2. ConnectGetChannel(m.body) \in Channels \cup {Panic}
    BY <2>1, DerefFacts DEF ConnectGetChannel, IBCChannelConnectMsg, Opt, WithVersion
  <2>3. ConnectGetCounterVersion(m.body) \in (Versions \X {TRUE}) \cup {<<NoVersion, FALSE>>}
    BY <2>1 DEF ConnectGetCounterVersion, IBCChannelConnectMsg, Opt, WithVersion
  <2>. QED
    BY <1>2, <2>2, <2>3 DEF Accessors, Blank, OutType
<1>3. CASE m.kind = "Close"
  <2>1. m.body \in IBCChannelCloseMsg
    BY <1>3 DEF Msgs
  <2>2. CloseGetChannel(m.body) \in Channels \cup {Panic}
    BY <2>1, DerefFacts DEF CloseGetChannel, IBCChannelCloseMsg, Opt, WithChannel
  <2>. QED
    BY <1>3, <2>2 DEF Accessors, Blank, OutType
<1>4. CASE m.kind = "Timeout"
  BY <1>4 DEF Accessors, Blank, OutType, IsZero
<1>. QED
  BY <1>1, <1>2, <1>3, <1>4 DEF Msgs

\* The getters an open message is handled with.
LEMMA AccessorsOpen ==
  ASSUME NEW b
  PROVE  /\ Accessors([kind |-> "Open", body |-> b]).channel = OpenGetChannel(b)
         /\ Accessors([kind |-> "Open", body |-> b]).version = OpenGetCounterVersion(b)
BY DEF Accessors, Blank

\* GetChannel panics exactly on a channel message with no variant set.
LEMMA PanicExactlyWithoutVariant ==
  ASSUME NEW m \in Msgs, m.kind \in {"Open", "Connect", "Close"}
  PROVE  Accessors(m).channel = Panic <=> \A f \in DOMAIN m.body : m.body[f] = Nil
<1>1. CASE m.kind = "Open"
  <2>1. m.body \in IBCChannelOpenMsg
    BY <1>1 DEF Msgs
  <2>2. Accessors(m).channel = OpenGetChannel(m.body)
    BY <1>1 DEF Accessors, Blank
  <2>3. OpenGetChannel(m.body) = Panic <=> m.body.open_init = Nil /\ m.body.open_try = Nil
    BY <2>1, DerefFacts, IBCAssumption DEF OpenGetChannel, IBCChannelOpenMsg, Opt, WithChannel
  <2>. QED
    BY <2>1, <2>2, <2>3 DEF IBCChannelOpenMsg
<1>2. CASE m.kind = "Connect"
  <2>1. m.body \in IBCChannelConnectMsg
    BY <1>2 DEF Msgs
  <2>2. Accessors(m).channel = ConnectGetChannel(m.body)
    BY <1>2 DEF Accessors, Blank
  <2>3. ConnectGetChannel(m.body) = Panic <=> m.body.open_ack = Nil /\ m.body.open_confirm = Nil
    BY <2>1, DerefFacts, IBCAssumption DEF ConnectGetChannel, IBCChannelConnectMsg, Opt, WithVersion
  <2>. QED
    BY <2>1, <2>2, <2>3 DEF IBCChannelConnectMsg
<1>3. CASE m.kind = "Close"
  <2>1. m.body \in IBCChannelCloseMsg
    BY <1>3 DEF Msgs
  <2>2. Accessors(m).channel = CloseGetChannel(m.body)
    BY <1>3 DEF Accessors, Blank
  <2>3. CloseGetChannel(m.body) = Panic <=> m.body.close_init = Nil /\ m.body.close_confirm = Nil
    BY <2>1, DerefFacts, IBCAssumption DEF CloseGetChannel, IBCChannelCloseMsg, Opt, WithChannel
  <2>. QED
    BY <2>1, <2>2, <2>3 DEF IBCChannelCloseMsg
<1>. QED
  BY <1>1, <1>2, <1>3

\* On the encoding of a one-variant enum value the getters return that
\* variant's channel, and its counterparty version when it has one.
LEMMA GettersMatchEnum ==
  ASSUME NEW e \in Enums
  PROVE  /\ Accessors(Encode(e)).channel = e.channel
         /\ Accessors(Encode(e)).version
              = IF HasVersion(e) THEN <<e.version, TRUE>> ELSE <<NoVersion, FALSE>>
<1> DEFINE ch == [channel |-> e.channel]
           chv == [channel |-> e.channel, counterparty_version |-> e.version]
<1>1. ch # Nil /\ chv # Nil
  BY SetIsNotNil DEF Enums
<1>2. CASE e.kind = "Open" /\ e.variant = 1
  <2>1. Encode(e) = [kind |-> "Open", body |-> [open_init |-> ch, open_try |-> Nil]]
    BY <1>2 DEF Encode
  <2>2. ~HasVersion(e)
    BY <1>2 DEF HasVersion
  <2>3. OpenGetChannel([open_init |-> ch, open_try |-> Nil]) = e.channel
    BY <1>1 DEF OpenGetChannel
  <2>4. OpenGetCounterVersion([open_init |-> ch, open_try |-> Nil]) = <<NoVersion, FALSE>>
    BY DEF OpenGetCounterVersion
  <2>6. Accessors(Encode(e)).channel = e.channel /\ Accessors(Encode(e)).version = <<NoVersion, FALSE>>
    BY <2>1, <2>3, <2>4, AccessorsOpen
  <2>. QED
    BY <2>2, <2>6
<1>3. CASE e.kind = "Open" /\ e.variant = 2
  <2>1. Encode(e) = [kind |-> "Open", body |-> [open_init |-> Nil, open_try |-> chv]]
    BY <1>3 DEF Encode
  <2>2. HasVersion(e)
    BY <1>3 DEF HasVersion
  <2>3. OpenGetChannel([open_init |-> Nil, open_try |-> chv]) = e.channel
    BY <1>1 DEF OpenGetChannel, Deref
  <2>4. OpenGetCounterVersion([open_init |-> Nil, open_try |-> chv]) = <<e.version, TRUE>>
    BY <1>1 DEF OpenGetCounterVersion
  <2>6. Accessors(Encode(e)).channel = e.channel /\ Accessors(Encode(e)).version = <<e.version, TRUE>>
    BY <2>1, <2>3, <2>4, AccessorsOpen
  <2>. QED
    BY <2>2, <2>6
<1>4. CASE e.kind = "Connect" /\ e.variant = 1
  BY <1>1, <1>4 DEF Encode, Accessors, Blank, ConnectGetChannel, ConnectGetCounterVersion, HasVersion
<1>5. CASE e.kind = "Connect" /\ e.variant = 2
  BY <1>1, <1>5 DEF Encode, Accessors, Blank, ConnectGetChannel, ConnectGetCounterVersion, HasVersion, Deref
<1>6. CASE e.kind = "Close" /\ e.variant = 1
  BY <1>1, <1>6 DEF Encode, Accessors, Blank, CloseGetChannel, HasVersion
<1>7. CASE e.kind = "Close" /\ e.variant = 2
  BY <1>1, <1>7 DEF Encode, Accessors, Blank, CloseGetChannel, HasVersion, Deref
<1>. QED
  BY <1>2, <1>3, <1>4, <1>5, <1>6, <1>7 DEF Enums

\* IsZero is the least element of the (revision, height) order.
LEMMA IsZeroLeast ==
  ASSUME NEW t \in IBCTimeoutBlock
  PROVE  IsZero(t) <=> \A u \in IBCTimeoutBlock : HeightLeq(t, u)
<1>1. t.revision \in Nat /\ t.height \in Nat
  BY IBCAssumption DEF IBCTimeoutBlock
<1>2. IsZero(t) => \A u \in IBCTimeoutBlock : HeightLeq(t, u)
  <2> SUFFICES ASSUME IsZero(t), NEW u \in IBCTimeoutBlock PROVE HeightLeq(t, u)
    OBVIOUS
  <2>1. u.revision \in Nat /\ u.height \in Nat
    BY IBCAssumption DEF IBCTimeoutBlock
  <2>2. t.revision = 0 /\ t.height = 0
    BY DEF IsZero
  <2>. QED
    BY <2>1, <2>2 DEF HeightLeq
<1>3. (\A u \in IBCTimeoutBlock : HeightLeq(t, u)) => IsZero(t)
  <2>1. [revision |-> 0, height |-> 0] \in IBCTimeoutBlock
    BY IBCAssumption DEF IBCTimeoutBlock
  <2>. QED
    BY <1>1, <2>1 DEF IsZero, HeightLeq
<1>. QED
  BY <1>2, <1>3

\* What a timeout block is handled with.
LEMMA AccessorsTimeout ==
  ASSUME NEW m, m.kind = "Timeout"
  PROVE  Accessors(m).zero = IsZero(m.body)
BY DEF Accessors, Blank

-----------------------------------------------------------------------------
(* IBCInv is inductive.                                                    *)

LEMMA InitIBCInv == Init => IBCInv
BY DEF Init, IBCInv

LEMMA NextIBCInv == IBCInv /\ [Next]_vars => IBCInv'
<1> SUFFICES ASSUME IBCInv, [Next]_vars PROVE IBCInv'
  OBVIOUS
<1>1. ASSUME NEW m \in Msgs, Receive(m) PROVE IBCInv'
  BY <1>1 DEF Receive, IBCInv
<1>2. CASE Handle
  BY <1>2 DEF Handle, IBCInv
<1>3. CASE UNCHANGED vars
  BY <1>3 DEF vars, IBCInv
<1>. QED
  BY <1>1, <1>2, <1>3 DEF Next

\* The handler's results are always the getters applied to the message it
\* holds, once they have run.
THEOREM IBCInvariant == Spec => []IBCInv
BY InitIBCInv, NextIBCInv, PTL DEF Spec

-----------------------------------------------------------------------------
(* The properties of the run ibc_accessors, for every set of channels,     *)
(* versions and heights.                                                   *)

\* The handler only ever holds a decodable message and what its getters
\* return.
THEOREM IBCTypeCorrect == Spec => []TypeOK
<1>1. IBCInv => TypeOK
  <2> SUFFICES ASSUME IBCInv PROVE TypeOK
    OBVIOUS
  <2>1. Blank \in OutType
    BY DEF Blank, OutType
  <2>2. done => out \in OutType
    BY AccessorsType DEF IBCInv, NoMsg
  <2>. QED
    BY <2>1, <2>2 DEF IBCInv, TypeOK, OutType
<1>. QED
  BY <1>1, IBCInvariant, PTL

\* GetChannel panics exactly on a channel message without a variant, for
\* every message json decoding can produce.
THEOREM PanicsOnlyWithoutVariantHolds == Spec => []PanicsOnlyWithoutVariant
<1>1. IBCInv => PanicsOnlyWithoutVariant
  <2> SUFFICES ASSUME IBCInv, Handled, msg.kind \in {"Open", "Connect", "Close"}
               PROVE  out.channel = Panic <=> \A f \in DOMAIN msg.body : msg.body[f] = Nil
    BY DEF PanicsOnlyWithoutVariant
  <2>1. msg \in Msgs /\ out = Accessors(msg)
    BY DEF IBCInv, Handled
  <2>. QED
    BY <2>1, PanicExactlyWithoutVariant
<1>. QED
  BY <1>1, IBCInvariant, PTL

\* On every message the Rust side can send, the getters agree with the
\* enum variant it encodes.
THEOREM MatchesEnumHolds == Spec => []MatchesEnum
<1>1. IBCInv => MatchesEnum
  <2> SUFFICES ASSUME IBCInv, NEW e \in Enums, Handled, msg = Encode(e)
               PROVE  /\ out.channel = e.channel
                      /\ out.version = IF HasVersion(e) THEN <<e.version, TRUE>>
                                                        ELSE <<NoVersion, FALSE>>
    BY DEF MatchesEnum
  <2>1. out = Accessors(Encode(e))
    BY DEF IBCInv, Handled
  <2>. QED
    BY <2>1, GettersMatchEnum
<1>. QED
  BY <1>1, IBCInvariant, PTL

\* IsZero holds of a timeout block exactly when it is the least height.
THEOREM ZeroIsLeastHeightHolds == Spec => []ZeroIsLeastHeight
<1>1. IBCInv => ZeroIsLeastHeight
  <2> SUFFICES ASSUME IBCInv, Handled, msg.kind = "Timeout"
               PROVE  out.zero <=> \A u \in IBCTimeoutBlock : HeightLeq(msg.body, u)
    BY DEF ZeroIsLeastHeight
  <2>1. msg \in Msgs /\ out = Accessors(msg)
    BY DEF IBCInv, Handled
  <2>2. msg.body \in IBCTimeoutBlock
    BY <2>1 DEF Msgs
  <2>3. out.zero = IsZero(msg.body)
    BY <2>1, AccessorsTimeout
  <2>. QED
    BY <2>2, <2>3, IsZeroLeast
<1>. QED
  BY <1>1, IBCInvariant, PTL

=============================================================================
