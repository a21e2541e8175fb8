-------------------------- MODULE EngineLoop_proofs --------------------------
(***************************************************************************)
(* EngineSafe and RoomForAll for every number of clients, every queue, any *)
(* batch and any timers.                                                   *)
(***************************************************************************)
EXTENDS EngineLoop, SequenceTheorems, FiniteSetTheorems, TLAPS

Messages == Clients \cup Control

(* Where a message can be: in the channel, or in the engine's hand.         *)
InChan(m) == m \in ToSet(chan)
InHand(m) == cmd = m /\ engine \in {"took", "next"}
Sent(m)   == InChan(m) \/ InHand(m)

(* No message is there twice. *)
ChanInv ==
    /\ chan \in Seq(Messages) /\ IsInjective(chan)
    /\ \A m \in Messages : InChan(m) => ~InHand(m)

(* A job is sent once. *)
ClientInv == \A c \in Clients : Sent(c) => http[c] \in {"relay", "done"}

(* The flag is up while an arrival is to be sent, in the channel or in the  *)
(* engine's hand, and it is only at one of these.                           *)
ArrivalInv ==
    /\ \A c \in Clients : http[c] = "arrive" =>
          /\ arrival_pending /\ ~Sent("arrival")
          /\ \A d \in Clients : http[d] = "arrive" => d = c
    /\ Sent("arrival") => arrival_pending

(* And so for the settings' nudge, whose flag is up for nothing else as     *)
(* long as the engine lives.                                                *)
SettingsInv ==
    /\ recorder = "send" => settings_pending /\ ~Sent("settings")
    /\ Sent("settings") => settings_pending
    /\ settings_pending /\ Open => recorder = "send" \/ Sent("settings")

WakeInv == signal # "grace" => ~Sent("wake")

(* Who has a place: at most Limit do, and the count is no less than they    *)
(* and those who were counted one too many.                                 *)
Holders  == {c \in Clients : http[c] = "send" \/ Sent(c)}
Refusing == {c \in Clients : http[c] = "refuse"}

PlacesInv ==
    /\ waiting \in Nat
    /\ Cardinality(Holders) =< Limit
    /\ Cardinality(Holders \cup Refusing) =< waiting

(* What the engine is doing tells what /health may show. *)
Shown == \/ lifecycle = (IF loaded THEN "Ready" ELSE "Idle")
         \/ lifecycle = "Stopping" /\ requested

StateInv ==
    /\ engine \in {"check", "wait", "took"} => Shown
    /\ engine \in {"serve", "next"} => loaded /\ Shown
    /\ engine = "unload" => ~loaded
    /\ engine = "reload" => cmd \in Clients
    /\ signal # "wait" => requested

EngineInv ==
    /\ EngineTypeOK /\ ChanInv /\ ClientInv /\ ArrivalInv /\ SettingsInv /\ WakeInv /\ PlacesInv
    /\ DeadlineFresh /\ StateInv

------------------------------------------------------------------------------
(* Facts about the channel. *)

LEMMA Push ==
    ASSUME NEW T, NEW s \in Seq(T), NEW m \in T, IsInjective(s), m \notin ToSet(s)
    PROVE  /\ Append(s, m) \in Seq(T) /\ IsInjective(Append(s, m))
           /\ ToSet(Append(s, m)) = ToSet(s) \cup {m}
  <1>1. /\ DOMAIN s = 1 .. Len(s) /\ Len(s) \in Nat
        /\ DOMAIN Append(s, m) = 1 .. Len(s) + 1 /\ Append(s, m) \in Seq(T)
        /\ \A i \in 1 .. Len(s) : Append(s, m)[i] = s[i]
        /\ Append(s, m)[Len(s) + 1] = m
    BY AppendProperties, LenProperties
  <1>2. ToSet(Append(s, m)) = ToSet(s) \cup {m}
    BY <1>1 DEF ToSet
  <1>3. \A i \in 1 .. Len(s) : s[i] # m
    BY <1>1 DEF ToSet
  <1>4. IsInjective(Append(s, m))
    BY <1>1, <1>3 DEF IsInjective
  <1> QED BY <1>1, <1>2, <1>4

LEMMA Pop ==
    ASSUME NEW T, NEW s \in Seq(T), s # <<>>, IsInjective(s)
    PROVE  /\ Tail(s) \in Seq(T) /\ IsInjective(Tail(s)) /\ Head(s) \in T
           /\ ToSet(s) = ToSet(Tail(s)) \cup {Head(s)} /\ Head(s) \notin ToSet(Tail(s))
  <1>1. /\ DOMAIN s = 1 .. Len(s) /\ Len(s) \in Nat \ {0} /\ Head(s) = s[1]
        /\ DOMAIN Tail(s) = 1 .. Len(s) - 1 /\ Tail(s) \in Seq(T) /\ Head(s) \in T
        /\ \A i \in 1 .. Len(s) - 1 : Tail(s)[i] = s[i + 1]
    BY HeadTailProperties, LenProperties, EmptySeq
  <1>2. ASSUME NEW x \in ToSet(s) PROVE x = Head(s) \/ x \in ToSet(Tail(s))
    <2>1. PICK i \in 1 .. Len(s) : x = s[i]
      BY <1>1, <1>2 DEF ToSet
    <2>2. CASE i = 1
      BY <2>1, <2>2, <1>1
    <2>3. CASE i # 1
      <3>1. i - 1 \in 1 .. Len(s) - 1 /\ (i - 1) + 1 = i
        BY <2>3, <1>1
      <3> QED BY <3>1, <2>1, <1>1 DEF ToSet
    <2> QED BY <2>2, <2>3
  <1>3. ToSet(Tail(s)) \subseteq ToSet(s) /\ Head(s) \in ToSet(s)
    BY <1>1 DEF ToSet
  <1>4. Head(s) \notin ToSet(Tail(s))
    <2> SUFFICES ASSUME NEW i \in 1 .. Len(s) - 1, s[i + 1] = s[1] PROVE FALSE
      BY <1>1 DEF ToSet
    <2>1. i + 1 \in 1 .. Len(s) /\ 1 \in 1 .. Len(s) /\ i + 1 # 1
      BY <1>1
    <2> QED BY <2>1, <1>1 DEF IsInjective
  <1>5. IsInjective(Tail(s))
    <2> SUFFICES ASSUME NEW i \in 1 .. Len(s) - 1, NEW j \in 1 .. Len(s) - 1, s[i + 1] = s[j + 1] PROVE i = j
      BY <1>1 DEF IsInjective
    <2>1. i + 1 \in 1 .. Len(s) /\ j + 1 \in 1 .. Len(s)
      BY <1>1
    <2>2. i + 1 = j + 1
      BY <2>1, <1>1 DEF IsInjective
    <2> QED BY <2>2
  <1> QED BY <1>1, <1>2, <1>3, <1>4, <1>5

LEMMA Emptied == <<>> \in Seq(Messages) /\ IsInjective(<<>>) /\ ToSet(<<>>) = {}
  BY EmptySeq, LenProperties DEF IsInjective, ToSet

(* Without repetitions it is as long as the set of what is in it. *)
LEMMA LengthIsCount ==
    ASSUME NEW T, NEW s \in Seq(T), IsInjective(s)
    PROVE  Len(s) \in Nat /\ IsFiniteSet(ToSet(s)) /\ Cardinality(ToSet(s)) = Len(s)
  <1>1. DOMAIN s = 1 .. Len(s) /\ Len(s) \in Nat
    BY LenProperties
  <1>2. s \in [1 .. Len(s) -> ToSet(s)]
    BY <1>1, IsASeq, ElementOfSeq DEF ToSet
  <1>3. s \in Bijection(1 .. Len(s), ToSet(s))
    BY <1>1, <1>2 DEF Bijection, Injection, Surjection, ToSet
  <1>4. IsFiniteSet(1 .. Len(s)) /\ Cardinality(1 .. Len(s)) = Len(s)
    BY SMTT(30), <1>1, FS_Interval
  <1> QED BY <1>1, <1>3, <1>4, FS_Bijection DEF ExistsBijection

LEMMA OneMore ==
    \A S : IsFiniteSet(S) => \A a : /\ IsFiniteSet(S \cup {a}) /\ Cardinality(S) \in Nat
                                   /\ Cardinality(S \cup {a}) \in Nat
                                   /\ Cardinality(S \cup {a}) =< Cardinality(S) + 1
  <1> SUFFICES ASSUME NEW S, IsFiniteSet(S), NEW a
               PROVE /\ IsFiniteSet(S \cup {a}) /\ Cardinality(S) \in Nat
                     /\ Cardinality(S \cup {a}) \in Nat
                     /\ Cardinality(S \cup {a}) =< Cardinality(S) + 1
    OBVIOUS
  <1>1. Cardinality(S) \in Nat
    BY FS_CardinalityType
  <1>2. IsFiniteSet(S \cup {a}) /\ (Cardinality(S \cup {a}) = Cardinality(S) \/ Cardinality(S \cup {a}) = Cardinality(S) + 1)
    BY <1>1, FS_AddElement
  <1> QED BY <1>1, <1>2

LEMMA ThreeMore ==
    ASSUME NEW S, IsFiniteSet(S), NEW a, NEW b, NEW c
    PROVE  /\ IsFiniteSet(S \cup {a, b, c}) /\ IsFiniteSet(S \cup {a, b})
           /\ Cardinality(S) \in Nat
           /\ Cardinality(S \cup {a, b, c}) =< Cardinality(S) + 3
           /\ Cardinality(S \cup {a, b}) =< Cardinality(S) + 2
  <1>1. IsFiniteSet(S \cup {a}) /\ Cardinality(S) \in Nat /\ Cardinality(S \cup {a}) \in Nat
        /\ Cardinality(S \cup {a}) =< Cardinality(S) + 1
    BY OneMore
  <1>2. /\ IsFiniteSet((S \cup {a}) \cup {b}) /\ Cardinality((S \cup {a}) \cup {b}) \in Nat
        /\ Cardinality((S \cup {a}) \cup {b}) =< Cardinality(S \cup {a}) + 1
    BY <1>1, OneMore
  <1>3. /\ IsFiniteSet(((S \cup {a}) \cup {b}) \cup {c}) /\ Cardinality(((S \cup {a}) \cup {b}) \cup {c}) \in Nat
        /\ Cardinality(((S \cup {a}) \cup {b}) \cup {c}) =< Cardinality((S \cup {a}) \cup {b}) + 1
    BY <1>2, OneMore
  <1>4. ((S \cup {a}) \cup {b}) \cup {c} = S \cup {a, b, c} /\ (S \cup {a}) \cup {b} = S \cup {a, b}
    OBVIOUS
  <1>5. \A x, y, z, w \in Nat : y =< x + 1 /\ z =< y + 1 /\ w =< z + 1 => z =< x + 2 /\ w =< x + 3
    OBVIOUS
  <1> QED BY <1>1, <1>2, <1>3, <1>4, <1>5

(* Whoever may still send finds room: the messages that can be there with   *)
(* its own still out are fewer than the channel holds.                      *)
LEMMA RoomFollows == EngineInv => RoomForAll
  <1> SUFFICES ASSUME EngineInv,
                      (\E c \in Clients : http[c] \in {"send", "arrive"}) \/ recorder = "send" \/ signal = "wake"
               PROVE Len(chan) < capacity
    BY DEF RoomForAll
  <1> DEFINE In == ToSet(chan)
  <1>1. Len(chan) \in Nat /\ IsFiniteSet(In) /\ Cardinality(In) = Len(chan)
    BY LengthIsCount DEF EngineInv, ChanInv
  <1>2. In \subseteq Messages
    BY ElementOfSeq, LenProperties DEF EngineInv, ChanInv, ToSet
  <1>3. In \subseteq Holders \cup Control
    BY <1>2 DEF Messages, Holders, Sent, InChan
  <1>4. IsFiniteSet(Holders) /\ Cardinality(Holders) \in Nat /\ Cardinality(Holders) =< Limit /\ Limit \in Nat
    <2>1. Holders \subseteq Clients
      BY DEF Holders
    <2> QED BY <2>1, EngineAssumption, FS_Subset, FS_CardinalityType DEF EngineInv, PlacesInv
  <1> HIDE DEF In
  <1>5. CASE \E c \in Clients : http[c] = "send"
    <2>1. PICK c \in Clients : http[c] = "send"
      BY <1>5
    <2>2. c \in Holders /\ c \notin In
      BY <2>1 DEF Holders, EngineInv, ClientInv, Sent, InChan, In
    <2>3. /\ IsFiniteSet(Holders \ {c}) /\ Cardinality(Holders \ {c}) = Cardinality(Holders) - 1
      BY <2>2, <1>4, FS_RemoveElement
    <2>4. /\ IsFiniteSet((Holders \ {c}) \cup Control)
          /\ Cardinality((Holders \ {c}) \cup Control) =< Cardinality(Holders \ {c}) + 3
      BY <2>3, ThreeMore DEF Control
    <2>5. In \subseteq (Holders \ {c}) \cup Control
      BY <1>3, <2>2
    <2>6. Cardinality(In) =< Cardinality((Holders \ {c}) \cup Control)
          /\ Cardinality((Holders \ {c}) \cup Control) \in Nat
      BY <2>4, <2>5, FS_Subset, FS_CardinalityType
    <2> QED BY <2>3, <2>4, <2>6, <1>1, <1>4 DEF capacity
  <1>6. ASSUME NEW a, NEW b, In \subseteq Holders \cup {a, b} PROVE Len(chan) < capacity
    <2>1. /\ IsFiniteSet(Holders \cup {a, b}) /\ Cardinality(Holders \cup {a, b}) =< Cardinality(Holders) + 2
      BY <1>4, ThreeMore
    <2>2. Cardinality(In) =< Cardinality(Holders \cup {a, b}) /\ Cardinality(Holders \cup {a, b}) \in Nat
      BY <2>1, <1>6, FS_Subset, FS_CardinalityType
    <2> QED BY <2>1, <2>2, <1>1, <1>4 DEF capacity
  <1>7. CASE \E c \in Clients : http[c] = "arrive"
    <2>1. "arrival" \notin In
      BY <1>7 DEF EngineInv, ArrivalInv, Sent, InChan, In
    <2>2. In \subseteq Holders \cup {"wake", "settings"}
      BY <2>1, <1>3 DEF Control
    <2> QED BY <2>2, <1>6
  <1>8. CASE recorder = "send"
    <2>1. "settings" \notin In
      BY <1>8 DEF EngineInv, SettingsInv, Sent, InChan, In
    <2>2. In \subseteq Holders \cup {"wake", "arrival"}
      BY <2>1, <1>3 DEF Control
    <2> QED BY <2>2, <1>6
  <1>9. CASE signal = "wake"
    <2>1. "wake" \notin In
      BY <1>9 DEF EngineInv, WakeInv, Sent, InChan, In
    <2>2. In \subseteq Holders \cup {"settings", "arrival"}
      BY <2>1, <1>3 DEF Control
    <2> QED BY <2>2, <1>6
  <1> QED BY <1>5, <1>7, <1>8, <1>9

------------------------------------------------------------------------------
(* What a step does to the channel and the hand. *)

HandKept == \/ cmd' = cmd /\ engine' = engine
            \/ engine \notin {"took", "next"} /\ engine' \notin {"took", "next"}

LEMMA ChanKept ==
    ASSUME ChanInv, chan' = chan, HandKept
    PROVE  ChanInv' /\ \A m : (InChan(m)' <=> InChan(m)) /\ (Sent(m)' <=> Sent(m))
  <1>1. \A m : (InChan(m)' <=> InChan(m)) /\ (InHand(m)' <=> InHand(m))
    BY DEF InChan, InHand, HandKept
  <1>2. chan' \in Seq(Messages) /\ IsInjective(chan')
    BY DEF ChanInv
  <1> QED BY <1>1, <1>2 DEF ChanInv, Sent, Messages, Control

LEMMA ChanPushed ==
    ASSUME ChanInv, NEW m \in Messages, ~Sent(m), chan' = Append(chan, m), HandKept
    PROVE  /\ ChanInv'
           /\ \A n : /\ InChan(n)' <=> InChan(n) \/ n = m
                     /\ Sent(n)' <=> Sent(n) \/ n = m
  <1>1. chan' \in Seq(Messages) /\ IsInjective(chan') /\ ToSet(chan') = ToSet(chan) \cup {m}
    BY Push DEF ChanInv, Sent, InChan
  <1>2. \A n : (InChan(n)' <=> InChan(n) \/ n = m) /\ (InHand(n)' <=> InHand(n))
    BY <1>1 DEF InChan, InHand, HandKept
  <1>3. \A n \in Messages : InChan(n)' => ~InHand(n)'
    BY <1>2 DEF ChanInv, Sent
  <1> QED BY <1>1, <1>2, <1>3 DEF ChanInv, Sent, Messages, Control

(* The engine takes the first message into its hand. *)
LEMMA ChanTaken ==
    ASSUME ChanInv, Receive
    PROVE  ChanInv' /\ (\A n : Sent(n)' <=> Sent(n)) /\ cmd' \in Messages
  <1>1. /\ chan' \in Seq(Messages) /\ IsInjective(chan') /\ cmd' \in Messages
        /\ ToSet(chan) = ToSet(chan') \cup {cmd'} /\ cmd' \notin ToSet(chan')
    BY Pop DEF ChanInv, Receive
  <1>2. engine' \in {"took", "next"} /\ engine \notin {"took", "next"}
    BY DEF Receive
  <1>3. \A n : Sent(n)' <=> Sent(n)
    BY <1>1, <1>2 DEF Sent, InChan, InHand
  <1>4. \A n \in Messages : InChan(n)' => ~InHand(n)'
    BY <1>1 DEF InChan, InHand
  <1> QED BY <1>1, <1>3, <1>4 DEF ChanInv, Messages, Control

(* It is done with what it had in its hand. *)
LEMMA ChanDone ==
    ASSUME ChanInv, chan' = chan, engine \in {"took", "next"}, engine' \notin {"took", "next"}, cmd \in Messages
    PROVE  ChanInv' /\ \A n : Sent(n)' <=> Sent(n) /\ n # cmd
  <1>1. \A n : (InChan(n)' <=> InChan(n)) /\ ~InHand(n)' /\ (InHand(n) <=> n = cmd)
    BY DEF InChan, InHand
  <1>2. chan' \in Seq(Messages) /\ IsInjective(chan') /\ ~InChan(cmd)
    BY <1>1 DEF ChanInv
  <1> QED BY <1>1, <1>2 DEF ChanInv, Sent, Messages, Control

(* It drops the first message. *)
LEMMA ChanDropped ==
    ASSUME ChanInv, chan # <<>>, chan' = Tail(chan), engine' = engine, engine \notin {"took", "next"}
    PROVE  /\ ChanInv' /\ Head(chan) \in Messages /\ Sent(Head(chan))
           /\ \A n : Sent(n)' <=> Sent(n) /\ n # Head(chan)
  <1>1. /\ chan' \in Seq(Messages) /\ IsInjective(chan') /\ Head(chan) \in Messages
        /\ ToSet(chan) = ToSet(chan') \cup {Head(chan)} /\ Head(chan) \notin ToSet(chan')
    BY Pop DEF ChanInv
  <1>2. \A n : ~InHand(n)' /\ ~InHand(n)
    BY DEF InHand
  <1>3. \A n : InChan(n)' <=> InChan(n) /\ n # Head(chan)
    BY <1>1 DEF InChan
  <1> QED BY <1>1, <1>2, <1>3 DEF ChanInv, Sent, InChan, Messages, Control

LEMMA ChanEmptied ==
    ASSUME chan' = <<>>, engine' \notin {"took", "next"}
    PROVE  ChanInv' /\ \A n : ~Sent(n)'
  <1>1. \A n : ~InHand(n)' /\ ~InChan(n)'
    BY Emptied DEF InHand, InChan
  <1> QED BY <1>1, Emptied DEF ChanInv, Sent, Messages, Control

------------------------------------------------------------------------------
(* What a step does to the places. *)

LEMMA PlacesFinite ==
    /\ IsFiniteSet(Clients) /\ Holders \subseteq Clients /\ Refusing \subseteq Clients
    /\ IsFiniteSet(Holders) /\ IsFiniteSet(Holders \cup Refusing)
    /\ Cardinality(Holders) \in Nat /\ Cardinality(Holders \cup Refusing) \in Nat
    /\ Cardinality(Holders) =< Cardinality(Holders \cup Refusing)
  <1>1. IsFiniteSet(Clients) /\ Holders \subseteq Clients /\ Refusing \subseteq Clients
    BY EngineAssumption DEF Holders, Refusing
  <1>2. IsFiniteSet(Holders \cup Refusing)
    BY <1>1, FS_Subset
  <1>3. IsFiniteSet(Holders) /\ Cardinality(Holders) =< Cardinality(Holders \cup Refusing)
    BY <1>2, FS_Subset
  <1> QED BY <1>1, <1>2, <1>3, FS_CardinalityType

(* Nobody gets a place. *)
LEMMA PlacesKept ==
    ASSUME PlacesInv, Holders' \subseteq Holders, Refusing' \subseteq Refusing, waiting' = waiting
    PROVE  PlacesInv'
  <1>1. Cardinality(Holders') =< Cardinality(Holders) /\ Cardinality(Holders') \in Nat
    BY PlacesFinite, FS_Subset, FS_CardinalityType
  <1>2. Holders' \cup Refusing' \subseteq Holders \cup Refusing
    OBVIOUS
  <1>3. Cardinality(Holders' \cup Refusing') =< Cardinality(Holders \cup Refusing)
        /\ Cardinality(Holders' \cup Refusing') \in Nat
    BY <1>2, PlacesFinite, FS_Subset, FS_CardinalityType
  <1> QED BY <1>1, <1>3, PlacesFinite, EngineAssumption DEF PlacesInv

(* One gives its place back. *)
LEMMA PlaceLeft ==
    ASSUME PlacesInv, NEW c \in Holders \cup Refusing, waiting' = waiting - 1,
           Holders' \subseteq Holders \ {c}, Refusing' \subseteq Refusing \ {c}
    PROVE  PlacesInv'
  <1>1. Cardinality(Holders') =< Cardinality(Holders) /\ Cardinality(Holders') \in Nat
    BY PlacesFinite, FS_Subset, FS_CardinalityType
  <1>2. Cardinality((Holders \cup Refusing) \ {c}) = Cardinality(Holders \cup Refusing) - 1
        /\ IsFiniteSet((Holders \cup Refusing) \ {c})
    BY PlacesFinite, FS_RemoveElement
  <1>3. Holders' \cup Refusing' \subseteq (Holders \cup Refusing) \ {c}
    OBVIOUS
  <1>4. Cardinality(Holders' \cup Refusing') =< Cardinality((Holders \cup Refusing) \ {c})
        /\ Cardinality(Holders' \cup Refusing') \in Nat
        /\ Cardinality((Holders \cup Refusing) \ {c}) \in Nat
    BY <1>2, <1>3, FS_Subset, FS_CardinalityType
  <1> QED BY <1>1, <1>2, <1>4, PlacesFinite, EngineAssumption DEF PlacesInv

(* One is counted; it has a place only when there was one. *)
LEMMA PlaceAsked ==
    ASSUME PlacesInv, NEW c, waiting' = waiting + 1,
           \/ HasPlace /\ Holders' \subseteq Holders \cup {c} /\ Refusing' \subseteq Refusing
           \/ Holders' \subseteq Holders /\ Refusing' \subseteq Refusing \cup {c}
    PROVE  PlacesInv'
  <1>1. /\ IsFiniteSet((Holders \cup Refusing) \cup {c})
        /\ Cardinality((Holders \cup Refusing) \cup {c}) =< Cardinality(Holders \cup Refusing) + 1
        /\ Cardinality((Holders \cup Refusing) \cup {c}) \in Nat
    BY PlacesFinite, OneMore
  <1>2. Holders' \cup Refusing' \subseteq (Holders \cup Refusing) \cup {c}
    OBVIOUS
  <1>3. Cardinality(Holders' \cup Refusing') =< Cardinality((Holders \cup Refusing) \cup {c})
        /\ Cardinality(Holders' \cup Refusing') \in Nat
    BY <1>1, <1>2, FS_Subset, FS_CardinalityType
  <1>4. Cardinality(Holders') =< Limit /\ Cardinality(Holders') \in Nat
    <2>1. CASE HasPlace /\ Holders' \subseteq Holders \cup {c}
      <3>1. /\ IsFiniteSet(Holders \cup {c}) /\ Cardinality(Holders \cup {c}) \in Nat
            /\ Cardinality(Holders \cup {c}) =< Cardinality(Holders) + 1
        BY PlacesFinite, OneMore
      <3>2. Cardinality(Holders') =< Cardinality(Holders \cup {c}) /\ Cardinality(Holders') \in Nat
        BY <3>1, <2>1, FS_Subset, FS_CardinalityType
      <3>3. Cardinality(Holders) < Limit
        BY <2>1, PlacesFinite, EngineAssumption DEF PlacesInv, HasPlace
      <3> QED BY <3>1, <3>2, <3>3, PlacesFinite, EngineAssumption
    <2>2. CASE Holders' \subseteq Holders
      <3>1. Cardinality(Holders') =< Cardinality(Holders) /\ Cardinality(Holders') \in Nat
        BY <2>2, PlacesFinite, FS_Subset, FS_CardinalityType
      <3> QED BY <3>1, PlacesFinite, EngineAssumption DEF PlacesInv
    <2> QED BY <2>1, <2>2
  <1>5. waiting' \in Nat /\ Cardinality(Holders' \cup Refusing') =< waiting'
    BY <1>1, <1>3, PlacesFinite DEF PlacesInv
  <1> QED BY <1>4, <1>5 DEF PlacesInv

(* Each is what the threads and the messages that were sent say. *)
LEMMA SameHolders ==
    ASSUME \A n : Sent(n)' => Sent(n), http' = http
    PROVE  Holders' \subseteq Holders /\ Refusing' \subseteq Refusing
  BY DEF Holders, Refusing

------------------------------------------------------------------------------
(* The steps of the threads outside the engine. *)

(* They leave what only the engine, the recorder and the signal thread have *)
(* a say in.                                                                *)
LEMMA HttpFrame ==
    ASSUME EngineInv, httpKeeps, UNCHANGED settings_pending,
           \A m \in {"settings", "wake"} : (InChan(m)' <=> InChan(m)) /\ (Sent(m)' <=> Sent(m))
    PROVE  SettingsInv' /\ WakeInv' /\ DeadlineFresh' /\ StateInv'
  <1> USE DEF EngineInv, httpKeeps, engineVars, timerVars
  <1>1. SettingsInv' /\ WakeInv'
    BY DEF SettingsInv, WakeInv, Open
  <1>2. DeadlineFresh'
    BY DEF DeadlineFresh, InChan
  <1>3. StateInv'
    BY DEF StateInv, Shown
  <1> QED BY <1>1, <1>2, <1>3

LEMMA HttpSteps ==
    ASSUME EngineInv, NEW c \in Clients, Http(c)
    PROVE  EngineInv'
  <1> USE DEF EngineInv, goto, finish
  <1>h. httpKeeps /\ HandKept /\ UNCHANGED <<settings_pending, process>> /\ c \in Messages
    BY DEF Http, Read, Arrive, BadRequest, admit, Refuse, Send, relay, httpKeeps, HandKept,
           engineVars, queueVars, Messages
  <1>d. \A d \in Clients \ {c} : http'[d] = http[d]
    BY DEF Http, Read, Arrive, BadRequest, admit, Refuse, Send, relay, EngineTypeOK
  <1>n. c \notin {"arrival", "wake", "settings"} /\ Control \subseteq Messages /\ Clients \subseteq Messages
    BY EngineAssumption DEF Messages, Control
  <1>t. ASSUME ChanInv', PlacesInv' PROVE EngineTypeOK'
    <2>1. chan' \in Seq(Clients \cup Control) /\ waiting' \in Nat
      BY <1>t DEF ChanInv, Messages, PlacesInv
    <2>2. /\ lifecycle' \in States /\ requested' \in BOOLEAN /\ settings_pending' \in BOOLEAN
          /\ engine' \in {"load", "check", "wait", "took", "next", "reload", "serve", "faulted", "recover",
                          "unload", "stop", "drain", "bye", "gone", "exit500", "exit503"}
          /\ cmd' \in Clients \cup Control \cup {Nobody} /\ rows' \subseteq Clients
          /\ loaded' \in BOOLEAN /\ recent' \in Nat
          /\ timers' \in Timers /\ deadline' \in Timers /\ changes' \in Nat
          /\ recorder' \in {"rest", "nudge", "send"}
          /\ signal' \in {"wait", "tell", "wake", "grace"}
          /\ process' \in {"up", "ended", "exited"}
      BY <1>h DEF EngineTypeOK, httpKeeps, engineVars, timerVars
    <2>3. /\ http' \in [Clients -> {"read", "arrive", "prepare", "refuse", "send", "relay", "done"}]
          /\ status' \in [Clients -> {0, 200, 400, 500, 503}] /\ arrival_pending' \in BOOLEAN
      <3>1. /\ http \in [Clients -> {"read", "arrive", "prepare", "refuse", "send", "relay", "done"}]
            /\ status \in [Clients -> {0, 200, 400, 500, 503}] /\ arrival_pending \in BOOLEAN
        BY DEF EngineTypeOK
      <3>2. CASE Read(c) \/ Arrive(c) \/ BadRequest(c)
        <4>1. CASE Read(c)
          <5>1. arrival_pending' \in BOOLEAN
            BY <3>1, <4>1 DEF Read
          <5>2. http' \in [Clients -> {"read", "arrive", "prepare", "refuse", "send", "relay", "done"}]
            BY <3>1, <4>1 DEF Read
          <5>3. status' \in [Clients -> {0, 200, 400, 500, 503}]
            BY <3>1, <4>1 DEF Read
          <5> QED BY <5>1, <5>2, <5>3
        <4>2. CASE Arrive(c)
          <5>1. arrival_pending' \in BOOLEAN
            BY <3>1, <4>2 DEF Arrive
          <5> QED BY <3>1, <4>2, <5>1 DEF Arrive
        <4>3. CASE BadRequest(c)
          BY <3>1, <4>3 DEF BadRequest, queueVars
        <4> QED BY <3>2, <4>1, <4>2, <4>3
      <3>3. CASE admit(c) \/ Refuse(c) \/ Send(c) \/ relay(c)
        BY <3>1, <3>3 DEF admit, Refuse, Send, relay, queueVars
      <3> QED BY <3>2, <3>3 DEF Http
    <2> QED BY <2>1, <2>2, <2>3 DEF EngineTypeOK
  (* Those that leave the channel alone. *)
  <1>k. ASSUME chan' = chan PROVE ChanInv' /\ \A m : (InChan(m)' <=> InChan(m)) /\ (Sent(m)' <=> Sent(m))
    BY <1>k, <1>h, ChanKept
  <1>1. CASE Read(c)
    <2>1. chan' = chan /\ waiting' = waiting /\ http'[c] \in {"done", "arrive", "prepare"} /\ http[c] = "read"
      BY <1>1 DEF Read, EngineTypeOK
    <2>2. ChanInv' /\ \A m : (InChan(m)' <=> InChan(m)) /\ (Sent(m)' <=> Sent(m))
      BY <2>1, <1>k
    <2>3. ClientInv'
      BY <2>1, <2>2, <1>d DEF ClientInv
    <2>4. ArrivalInv'
      <3>1. \/ arrival_pending' = arrival_pending /\ http'[c] # "arrive"
            \/ ~arrival_pending /\ arrival_pending' = TRUE
        BY <1>1 DEF Read, EngineTypeOK
      <3> QED BY <3>1, <2>1, <2>2, <1>d DEF ArrivalInv
    <2>5. PlacesInv'
      <3>1. Holders' \subseteq Holders /\ Refusing' \subseteq Refusing
        BY <2>1, <2>2, <1>d DEF Holders, Refusing
      <3> QED BY <3>1, <2>1, PlacesKept
    <2> QED BY <2>2, <2>3, <2>4, <2>5, <1>h, <1>t, HttpFrame
  <1>2. CASE Arrive(c)
    <2>1. waiting' = waiting /\ http'[c] = "prepare" /\ http[c] = "arrive" /\ ~Sent("arrival") /\ arrival_pending
      BY <1>2 DEF Arrive, EngineTypeOK, ArrivalInv
    <2>2. /\ ChanInv'
          /\ \A m : m # "arrival" => (InChan(m)' <=> InChan(m)) /\ (Sent(m)' <=> Sent(m))
          /\ Sent("arrival")' => arrival_pending'
      <3>1. CASE CanSend
        <4>1. chan' = Append(chan, "arrival") /\ arrival_pending' = arrival_pending
          BY <1>2, <3>1 DEF Arrive
        <4> QED BY <4>1, <2>1, <1>h, <1>n, ChanPushed DEF Control
      <3>2. CASE ~CanSend
        <4>1. chan' = chan
          BY <1>2, <3>2 DEF Arrive
        <4> QED BY <4>1, <1>k, <2>1
      <3> QED BY <3>1, <3>2
    <2>3. ClientInv'
      BY <2>1, <2>2, <1>d, EngineAssumption DEF ClientInv
    <2>4. ArrivalInv'
      BY <2>1, <2>2, <1>d DEF ArrivalInv
    <2>5. PlacesInv'
      <3>1. Holders' \subseteq Holders /\ Refusing' \subseteq Refusing
        BY <2>1, <2>2, <1>d, EngineAssumption DEF Holders, Refusing
      <3> QED BY <3>1, <2>1, PlacesKept
    <2> QED BY <2>2, <2>3, <2>4, <2>5, <1>h, <1>t, HttpFrame
  <1>3. CASE BadRequest(c) \/ relay(c)
    <2>1. /\ chan' = chan /\ waiting' = waiting /\ arrival_pending' = arrival_pending
          /\ http'[c] = "done" /\ http[c] \in {"prepare", "relay"}
      BY <1>3 DEF BadRequest, relay, EngineTypeOK, queueVars
    <2>2. ChanInv' /\ \A m : (InChan(m)' <=> InChan(m)) /\ (Sent(m)' <=> Sent(m))
      BY <2>1, <1>k
    <2>3. ClientInv' /\ ArrivalInv'
      BY <2>1, <2>2, <1>d DEF ClientInv, ArrivalInv
    <2>4. PlacesInv'
      <3>1. Holders' \subseteq Holders /\ Refusing' \subseteq Refusing
        BY <2>1, <2>2, <1>d DEF Holders, Refusing
      <3> QED BY <3>1, <2>1, PlacesKept
    <2> QED BY <2>2, <2>3, <2>4, <1>h, <1>t, HttpFrame
  <1>4. CASE admit(c)
    <2>1. /\ chan' = chan /\ waiting' = waiting + 1 /\ arrival_pending' = arrival_pending
          /\ http[c] = "prepare" /\ http'[c] = IF HasPlace THEN "send" ELSE "refuse"
      BY <1>4 DEF admit, EngineTypeOK
    <2>2. ChanInv' /\ \A m : (InChan(m)' <=> InChan(m)) /\ (Sent(m)' <=> Sent(m))
      BY <2>1, <1>k
    <2>3. ClientInv' /\ ArrivalInv'
      BY <2>1, <2>2, <1>d DEF ClientInv, ArrivalInv
    <2>4. PlacesInv'
      <3>1. CASE HasPlace
        <4>1. Holders' \subseteq Holders \cup {c} /\ Refusing' \subseteq Refusing
          BY <2>1, <2>2, <3>1, <1>d DEF Holders, Refusing
        <4> QED BY <4>1, <3>1, <2>1, PlaceAsked
      <3>2. CASE ~HasPlace
        <4>1. Holders' \subseteq Holders /\ Refusing' \subseteq Refusing \cup {c}
          BY <2>1, <2>2, <3>2, <1>d DEF Holders, Refusing
        <4> QED BY <4>1, <2>1, PlaceAsked
      <3> QED BY <3>1, <3>2
    <2> QED BY <2>2, <2>3, <2>4, <1>h, <1>t, HttpFrame
  <1>5. CASE Refuse(c) \/ (Send(c) /\ ~CanSend)
    <2>1. /\ chan' = chan /\ waiting' = waiting - 1 /\ arrival_pending' = arrival_pending
          /\ http[c] \in {"refuse", "send"} /\ http'[c] = "done"
      BY <1>5 DEF Refuse, Send, EngineTypeOK
    <2>2. ChanInv' /\ \A m : (InChan(m)' <=> InChan(m)) /\ (Sent(m)' <=> Sent(m))
      BY <2>1, <1>k
    <2>3. ClientInv' /\ ArrivalInv'
      BY <2>1, <2>2, <1>d DEF ClientInv, ArrivalInv
    <2>4. PlacesInv'
      <3>1. ~Sent(c) /\ c \in Holders \cup Refusing
        BY <2>1 DEF ClientInv, Holders, Refusing
      <3>2. Holders' \subseteq Holders \ {c} /\ Refusing' \subseteq Refusing \ {c}
        BY <2>1, <2>2, <3>1, <1>d DEF Holders, Refusing
      <3> QED BY <3>1, <3>2, <2>1, PlaceLeft
    <2> QED BY <2>2, <2>3, <2>4, <1>h, <1>t, HttpFrame
  <1>6. CASE Send(c) /\ CanSend
    <2>1. /\ chan' = Append(chan, c) /\ waiting' = waiting /\ arrival_pending' = arrival_pending
          /\ http[c] = "send" /\ http'[c] = "relay"
      BY <1>6 DEF Send, EngineTypeOK
    <2>2. /\ ChanInv'
          /\ \A m : (InChan(m)' <=> InChan(m) \/ m = c) /\ (Sent(m)' <=> Sent(m) \/ m = c)
      <3>1. ~Sent(c)
        BY <2>1 DEF ClientInv
      <3> QED BY <3>1, <2>1, <1>h, ChanPushed
    <2>3. ClientInv' /\ ArrivalInv'
      BY <2>1, <2>2, <1>d, <1>n DEF ClientInv, ArrivalInv
    <2>4. PlacesInv'
      <3>1. Holders' \subseteq Holders /\ Refusing' \subseteq Refusing
        BY <2>1, <2>2, <1>d DEF Holders, Refusing
      <3> QED BY <3>1, <2>1, PlacesKept
    <2> QED BY <2>2, <2>3, <2>4, <1>h, <1>n, <1>t, HttpFrame
  <1> QED BY <1>1, <1>2, <1>3, <1>4, <1>5, <1>6 DEF Http

(* Neither the recorder nor the signal thread touches a request. *)
LEMMA RequestsKept ==
    ASSUME ClientInv, ArrivalInv, PlacesInv, UNCHANGED <<http, arrival_pending, waiting>>,
           \A m \in Clients \cup {"arrival"} : Sent(m)' => Sent(m)
    PROVE  ClientInv' /\ ArrivalInv' /\ PlacesInv'
  <1>1. ClientInv' /\ ArrivalInv'
    BY DEF ClientInv, ArrivalInv
  <1>2. Holders' \subseteq Holders /\ Refusing' \subseteq Refusing
    BY DEF Holders, Refusing
  <1> QED BY <1>1, <1>2, PlacesKept

LEMMA RecorderSteps ==
    ASSUME EngineInv, Recorder
    PROVE  EngineInv'
  <1> USE DEF EngineInv
  <1>h. /\ UNCHANGED <<lifecycle, requested, http, status, engine, cmd, rows, loaded, recent, deadline,
                       signal, process, waiting, arrival_pending>>
        /\ HandKept
    BY DEF Recorder, ChangeTimer, Claim, Nudge, HandKept, engineVars, queueVars
  <1>n. {"arrival", "wake", "settings"} \cap Clients = {} /\ "settings" \in Messages
    BY EngineAssumption DEF Messages, Control
  <1>s. WakeInv' /\ StateInv' <=> WakeInv'
    BY <1>h DEF StateInv, Shown
  <1>t. ASSUME ChanInv', PlacesInv' PROVE EngineTypeOK'
    <2>1. chan' \in Seq(Clients \cup Control) /\ waiting' \in Nat
      BY <1>t DEF ChanInv, Messages, PlacesInv
    <2>2. timers' \in Timers /\ recorder' \in {"rest", "nudge", "send"} /\ changes' \in Nat /\ settings_pending' \in BOOLEAN
      <3>1. timers \in Timers /\ recorder \in {"rest", "nudge", "send"} /\ changes \in Nat /\ settings_pending \in BOOLEAN
        BY DEF EngineTypeOK
      <3>2. CASE ChangeTimer
        BY <3>1, <3>2 DEF ChangeTimer, queueVars
      <3>3. CASE Claim
        BY <3>1, <3>3 DEF Claim
      <3>4. CASE Nudge
        <4>1. settings_pending' \in BOOLEAN
          BY <3>1, <3>4 DEF Nudge
        <4> QED BY <3>1, <3>4, <4>1 DEF Nudge
      <3> QED BY <3>2, <3>3, <3>4 DEF Recorder
    <2> QED BY <2>1, <2>2, <1>h DEF EngineTypeOK
  <1>1. CASE ChangeTimer
    <2>1. chan' = chan /\ settings_pending' = settings_pending /\ recorder = "rest" /\ recorder' = "nudge"
      BY <1>1 DEF ChangeTimer, queueVars
    <2>2. ChanInv' /\ \A m : (InChan(m)' <=> InChan(m)) /\ (Sent(m)' <=> Sent(m))
      BY <2>1, <1>h, ChanKept
    <2>3. ClientInv' /\ ArrivalInv' /\ PlacesInv'
      BY <2>2, <1>h, RequestsKept
    <2>4. SettingsInv' /\ WakeInv'
      BY <2>1, <2>2, <1>h DEF SettingsInv, WakeInv, Open
    <2>5. DeadlineFresh'
      BY <2>1 DEF DeadlineFresh
    <2> QED BY <2>2, <2>3, <2>4, <2>5, <1>s, <1>t
  <1>2. CASE Claim
    <2>1. chan' = chan /\ settings_pending' = TRUE /\ timers' = timers /\ recorder = "nudge"
          /\ recorder' = IF settings_pending THEN "rest" ELSE "send"
      BY <1>2 DEF Claim
    <2>2. ChanInv' /\ \A m : (InChan(m)' <=> InChan(m)) /\ (Sent(m)' <=> Sent(m))
      BY <2>1, <1>h, ChanKept
    <2>3. ClientInv' /\ ArrivalInv' /\ PlacesInv'
      BY <2>2, <1>h, RequestsKept
    <2>4. SettingsInv' /\ WakeInv'
      BY <2>1, <2>2, <1>h DEF SettingsInv, WakeInv, Open
    <2>5. DeadlineFresh'
      <3>1. ASSUME settings_pending, engine = "wait" PROVE "settings" \in ToSet(chan)
        BY <3>1, <2>1 DEF SettingsInv, Open, Sent, InHand, InChan
      <3> QED BY <3>1, <2>1, <1>h DEF DeadlineFresh
    <2> QED BY <2>2, <2>3, <2>4, <2>5, <1>s, <1>t
  <1>3. CASE Nudge
    <2>1. timers' = timers /\ recorder = "send" /\ recorder' = "rest" /\ ~Sent("settings") /\ settings_pending
      BY <1>3 DEF Nudge, SettingsInv
    <2>2. CASE CanSend
      <3>1. chan' = Append(chan, "settings") /\ settings_pending' = settings_pending
        BY <1>3, <2>2 DEF Nudge
      <3>2. ChanInv' /\ \A m : /\ InChan(m)' <=> InChan(m) \/ m = "settings"
                               /\ Sent(m)' <=> Sent(m) \/ m = "settings"
        BY <3>1, <2>1, <1>h, <1>n, ChanPushed
      <3>3. ClientInv' /\ ArrivalInv' /\ PlacesInv'
        BY <3>2, <1>h, <1>n, RequestsKept
      <3>4. SettingsInv' /\ WakeInv'
        BY <2>1, <3>1, <3>2, <1>h DEF SettingsInv, WakeInv
      <3>5. DeadlineFresh'
        BY <3>2 DEF DeadlineFresh, InChan
      <3> QED BY <3>2, <3>3, <3>4, <3>5, <1>s, <1>t
    <2>3. CASE ~CanSend
      <3>1. chan' = chan /\ settings_pending' = FALSE
        BY <1>3, <2>3 DEF Nudge
      <3>2. engine = "gone"
        BY <2>1, <2>3, RoomFollows DEF RoomForAll, CanSend, Open
      <3>3. ChanInv' /\ \A m : (InChan(m)' <=> InChan(m)) /\ (Sent(m)' <=> Sent(m))
        BY <3>1, <1>h, ChanKept
      <3>4. ClientInv' /\ ArrivalInv' /\ PlacesInv'
        BY <3>3, <1>h, RequestsKept
      <3>5. SettingsInv' /\ WakeInv'
        BY <2>1, <3>1, <3>3, <1>h DEF SettingsInv, WakeInv
      <3>6. DeadlineFresh'
        BY <3>2, <1>h DEF DeadlineFresh
      <3> QED BY <3>3, <3>4, <3>5, <3>6, <1>s, <1>t
    <2> QED BY <2>2, <2>3
  <1> QED BY <1>1, <1>2, <1>3 DEF Recorder

LEMMA SignalSteps ==
    ASSUME EngineInv, SignalThread
    PROVE  EngineInv'
  <1> USE DEF EngineInv
  <1>h. /\ UNCHANGED <<http, status, engine, cmd, rows, loaded, recent, deadline, timers, recorder, changes,
                       process, waiting, arrival_pending, settings_pending>>
        /\ HandKept
    BY DEF SignalThread, Signal, Tell, Wake, HandKept, engineVars, timerVars
  <1>n. {"arrival", "wake", "settings"} \cap Clients = {} /\ "wake" \in Messages
    BY EngineAssumption DEF Messages, Control
  <1>1. /\ ChanInv' /\ WakeInv'
        /\ \A m : m # "wake" => (InChan(m)' <=> InChan(m)) /\ (Sent(m)' <=> Sent(m))
    <2>1. CASE chan' = chan /\ (signal = "grace" <=> signal' = "grace")
      <3>1. ChanInv' /\ \A m : (InChan(m)' <=> InChan(m)) /\ (Sent(m)' <=> Sent(m))
        BY <2>1, <1>h, ChanKept
      <3> QED BY <3>1, <2>1 DEF WakeInv
    <2>2. CASE Wake /\ CanSend
      <3>1. chan' = Append(chan, "wake") /\ ~Sent("wake") /\ signal' = "grace"
        BY <2>2 DEF Wake, WakeSent, WakeInv
      <3> QED BY <3>1, <1>h, <1>n, ChanPushed DEF WakeInv
    <2>3. CASE Wake /\ ~CanSend
      <3>1. chan' = chan /\ signal' = "grace"
        BY <2>3 DEF Wake, WakeSent
      <3> QED BY <3>1, <1>h, ChanKept DEF WakeInv
    <2>4. Signal \/ Tell => chan' = chan /\ (signal = "grace" <=> signal' = "grace")
      BY DEF Signal, Tell
    <2> QED BY <2>1, <2>2, <2>3, <2>4 DEF SignalThread
  <1>2. ClientInv' /\ ArrivalInv' /\ PlacesInv'
    BY <1>1, <1>h, <1>n, RequestsKept
  <1>3. SettingsInv'
    BY <1>1, <1>h DEF SettingsInv, Open
  <1>4. DeadlineFresh'
    BY <1>1, <1>h DEF DeadlineFresh, InChan
  <1>5. /\ StateInv' /\ lifecycle' \in States /\ requested' \in BOOLEAN
        /\ signal' \in {"wait", "tell", "wake", "grace"}
    <2>1. /\ lifecycle \in States /\ requested \in BOOLEAN
          /\ signal \in {"wait", "tell", "wake", "grace"}
      BY DEF EngineTypeOK
    <2>2. CASE Signal
      BY <2>1, <2>2, <1>h DEF StateInv, Shown, Signal
    <2>3. CASE Tell
      BY <2>1, <2>3, <1>h DEF StateInv, Shown, Tell, States
    <2>4. CASE Wake
      BY <2>1, <2>4, <1>h DEF StateInv, Shown, Wake
    <2> QED BY <2>2, <2>3, <2>4 DEF SignalThread
  <1>6. EngineTypeOK'
    <2>1. chan' \in Seq(Clients \cup Control) /\ waiting' \in Nat
      BY <1>1, <1>2 DEF ChanInv, Messages, PlacesInv
    <2> QED BY <2>1, <1>5, <1>h DEF EngineTypeOK
  <1> QED BY <1>1, <1>2, <1>3, <1>4, <1>5, <1>6

------------------------------------------------------------------------------
(* The steps of the engine. *)

EnginePlaces == {"load", "check", "wait", "took", "next", "reload", "serve", "faulted", "recover",
                 "unload", "stop", "drain", "bye", "gone", "exit500", "exit503"}

(* The part of the types that is the engine's own. *)
EngineTypes ==
    /\ lifecycle \in States /\ status \in [Clients -> {0, 200, 400, 500, 503}]
    /\ engine \in EnginePlaces /\ cmd \in Messages \cup {Nobody}
    /\ rows \subseteq Clients /\ loaded \in BOOLEAN /\ recent \in Nat
    /\ deadline \in Timers /\ process \in {"up", "ended", "exited"}

LEMMA EngineTypesFrame ==
    ASSUME EngineTypeOK, othersKeep, EngineTypes', ChanInv', PlacesInv',
           arrival_pending' \in BOOLEAN, settings_pending' \in BOOLEAN
    PROVE  EngineTypeOK'
  <1>1. chan' \in Seq(Clients \cup Control) /\ waiting' \in Nat
    BY DEF ChanInv, Messages, PlacesInv
  <1> QED BY <1>1 DEF EngineTypeOK, EngineTypes, EnginePlaces, Messages, othersKeep, timerVars

LEMMA ReplyTyped ==
    ASSUME status \in [Clients -> {0, 200, 400, 500, 503}], NEW who, NEW code \in {200, 500, 503},
           Reply(who, code)
    PROVE  status' \in [Clients -> {0, 200, 400, 500, 503}]
  BY DEF Reply

(* A step that takes no message and sends none. *)
Quiet == \/ Load \/ Check \/ Reload \/ Serve \/ Served \/ Fault
         \/ record \/ Timeout \/ Unloaded \/ Stop \/ Refused

LEMMA QuietSteps ==
    ASSUME EngineInv, Quiet, othersKeep
    PROVE  EngineInv'
  <1> USE DEF EngineInv
  <1>1. /\ UNCHANGED queueVars
        /\ engine \notin {"took", "next", "gone"} /\ engine' \notin {"took", "next", "gone"}
    BY DEF Quiet, Load, Check, Reload, Serve, Served, Fault, record, Timeout, Unloaded, Stop, Refused,
           queueKeeps, exit_failed
  <1>2. ChanInv' /\ \A m : (InChan(m)' <=> InChan(m)) /\ (Sent(m)' <=> Sent(m))
    BY <1>1, ChanKept DEF HandKept, queueVars
  <1>3. ClientInv' /\ ArrivalInv' /\ PlacesInv'
    BY <1>1, <1>2, RequestsKept DEF othersKeep, queueVars
  <1>4. SettingsInv' /\ WakeInv'
    BY <1>1, <1>2 DEF SettingsInv, WakeInv, Open, othersKeep, timerVars, queueVars
  <1>5. EngineTypes' /\ StateInv' /\ (engine' = "wait" /\ loaded' => deadline' = timers')
    <2>1. EngineTypes /\ timers \in Timers /\ 0 \in Timers /\ Nobody \in Messages \cup {Nobody}
      BY EngineAssumption DEF EngineTypeOK, EngineTypes, EnginePlaces, Messages
    <2>2. CASE Load
      BY ZenonT(30), <2>1, <2>2 DEF Load, exit_failed, EngineTypes, EnginePlaces, States, StateInv, Shown, othersKeep
    <2>3. CASE Check
      BY <2>1, <2>3 DEF Check, EngineTypes, EnginePlaces, StateInv, Shown, othersKeep, timerVars
    <2>4. CASE Reload
      <3>1. /\ status' \in [Clients -> {0, 200, 400, 500, 503}] /\ rows' \subseteq Clients
            /\ loaded' \in BOOLEAN
        <4>1. Reload => (loaded' = TRUE /\ rows' = {cmd} /\ status' = status)
                        \/ (Reply({cmd}, 500) /\ loaded' = loaded /\ rows' = rows)
          BY DEF Reload
        <4>2. cmd \in Clients
          BY <2>4 DEF Reload, StateInv
        <4>3. Reply({cmd}, 500) => status' \in [Clients -> {0, 200, 400, 500, 503}]
          BY <2>1, ReplyTyped DEF EngineTypes
        <4>4. /\ status \in [Clients -> {0, 200, 400, 500, 503}] /\ rows \subseteq Clients
              /\ loaded \in BOOLEAN /\ {cmd} \subseteq Clients
          BY <4>2, <2>1 DEF EngineTypes
        <4>5. CASE loaded' = TRUE /\ rows' = {cmd} /\ status' = status
          BY <4>4, <4>5
        <4>6. CASE Reply({cmd}, 500) /\ loaded' = loaded /\ rows' = rows
          BY <4>3, <4>4, <4>6
        <4> QED BY <4>1, <4>5, <4>6, <2>4
      <3>2. /\ UNCHANGED <<recent, deadline, process>> /\ cmd' = Nobody
            /\ \/ lifecycle' = "Ready" /\ loaded' /\ engine' = "serve"
               \/ lifecycle' = "Stopping" /\ engine' = "exit500"
        BY <2>4 DEF Reload, exit_failed, ReadyState
      <3> QED BY <3>1, <3>2, <2>1 DEF EngineTypes, EnginePlaces, States, StateInv, Shown, othersKeep
    <2>5. CASE Serve
      <3>1. status' \in [Clients -> {0, 200, 400, 500, 503}] /\ rows' \subseteq Clients
        BY <2>1, <2>5, ReplyTyped DEF Serve, EngineTypes
      <3> QED BY <3>1, <2>1, <2>5 DEF Serve, EngineTypes, EnginePlaces, StateInv, Shown, othersKeep
    <2>6. CASE Served
      BY <2>1, <2>6 DEF Served, EngineTypes, EnginePlaces, StateInv, Shown, othersKeep
    <2>7. CASE Fault
      <3>1. status' \in [Clients -> {0, 200, 400, 500, 503}] /\ rows' = {}
        BY <2>1, <2>7, ReplyTyped DEF Fault, EngineTypes
      <3> QED BY <3>1, <2>1, <2>7 DEF Fault, EngineTypes, EnginePlaces, StateInv, Shown, othersKeep
    <2>8. CASE record
      <3>1. recent' \in Nat
        BY <2>1, <2>8 DEF record, EngineTypes
      <3>2. /\ loaded' = FALSE /\ lifecycle' \in {"Recovering", "Stopping"} /\ engine' \in {"recover", "exit503"}
            /\ UNCHANGED <<status, cmd, rows, deadline, process>>
        BY <2>8, Zenon DEF record, exit_failed
      <3> QED BY <3>1, <3>2, <2>1 DEF EngineTypes, EnginePlaces, States, StateInv, Shown, othersKeep
    <2>9. CASE Timeout
      BY <2>1, <2>9 DEF Timeout, EngineTypes, EnginePlaces, StateInv, Shown, othersKeep
    <2>10. CASE Unloaded
      BY <2>1, <2>10 DEF Unloaded, EngineTypes, EnginePlaces, States, StateInv, Shown, othersKeep
    <2>11. CASE Stop \/ Refused
      BY <2>1, <2>11 DEF Stop, Refused, EngineTypes, EnginePlaces, States, StateInv, Shown, othersKeep
    <2> QED BY <2>2, <2>3, <2>4, <2>5, <2>6, <2>7, <2>8, <2>9, <2>10, <2>11 DEF Quiet
  <1>6. DeadlineFresh'
    BY <1>5 DEF DeadlineFresh
  <1>7. EngineTypeOK'
    BY <1>1, <1>2, <1>3, <1>5, EngineTypesFrame DEF EngineTypeOK, queueVars
  <1> QED BY <1>2, <1>3, <1>4, <1>5, <1>6, <1>7

LEMMA ReceiveSteps ==
    ASSUME EngineInv, Receive, othersKeep
    PROVE  EngineInv'
  <1> USE DEF EngineInv
  <1>1. ChanInv' /\ (\A n : Sent(n)' <=> Sent(n)) /\ cmd' \in Messages
    BY ChanTaken
  <1>2. /\ UNCHANGED <<waiting, arrival_pending, settings_pending, lifecycle, status, rows, loaded,
                       recent, deadline, process>>
        /\ \/ engine = "wait" /\ engine' = "took"
           \/ engine = "serve" /\ engine' = "next"
    BY DEF Receive
  <1>3. ClientInv' /\ ArrivalInv' /\ PlacesInv'
    BY <1>1, <1>2, RequestsKept DEF othersKeep
  <1>4. SettingsInv' /\ WakeInv'
    BY <1>1, <1>2 DEF SettingsInv, WakeInv, Open, othersKeep, timerVars
  <1>5. StateInv' /\ DeadlineFresh'
    BY <1>2 DEF StateInv, Shown, DeadlineFresh, othersKeep
  <1>6. EngineTypes'
    BY <1>1, <1>2 DEF EngineTypeOK, EngineTypes, EnginePlaces
  <1>7. EngineTypeOK'
    BY <1>1, <1>2, <1>3, <1>6, EngineTypesFrame DEF EngineTypeOK
  <1> QED BY <1>1, <1>3, <1>4, <1>5, <1>7

(* What it took is settled: a job's place with it. *)
LEMMA TakeSteps ==
    ASSUME EngineInv, TakeControl \/ TakeJob, othersKeep
    PROVE  EngineInv'
  <1> USE DEF EngineInv
  <1>n. Control \cap Clients = {} /\ Clients \subseteq Messages /\ Control \subseteq Messages
    BY EngineAssumption DEF Control, Messages
  <1>1. /\ chan' = chan /\ engine \in {"took", "next"} /\ engine' \in {"check", "serve", "stop", "reload"}
        /\ cmd \in Messages /\ UNCHANGED <<loaded, recent, deadline, process>>
    BY <1>n DEF TakeControl, TakeJob, Back
  <1>2. ChanInv' /\ \A n : Sent(n)' <=> Sent(n) /\ n # cmd
    BY <1>1, ChanDone
  <1>3. Sent(cmd)
    BY <1>1 DEF Sent, InHand
  <1>4. /\ settings_pending' = (settings_pending /\ cmd # "settings")
        /\ arrival_pending' = (arrival_pending /\ cmd # "arrival")
    <2>1. settings_pending \in BOOLEAN /\ arrival_pending \in BOOLEAN
      BY DEF EngineTypeOK
    <2>2. CASE TakeControl
      BY <2>1, <2>2 DEF TakeControl, settings_taken, arrival_taken
    <2>3. CASE TakeJob
      BY <2>1, <2>3, <1>n DEF TakeJob, Control
    <2> QED BY <2>2, <2>3
  <1>5. ClientInv'
    BY <1>2 DEF ClientInv, othersKeep
  <1>6. ArrivalInv'
    BY <1>2, <1>3, <1>4 DEF ArrivalInv, othersKeep
  <1>7. SettingsInv' /\ WakeInv'
    BY <1>1, <1>2, <1>3, <1>4 DEF SettingsInv, WakeInv, Open, othersKeep, timerVars
  <1>8. PlacesInv'
    <2>1. CASE TakeControl
      <3>1. waiting' = waiting
        BY <2>1 DEF TakeControl
      <3> QED BY <3>1, <1>2, SameHolders, PlacesKept DEF othersKeep
    <2>2. CASE TakeJob
      <3>1. waiting' = waiting - 1 /\ cmd \in Clients
        BY <2>2 DEF TakeJob
      <3>2. cmd \in Holders \cup Refusing
        BY <3>1, <1>3 DEF Holders
      <3>3. http[cmd] \in {"relay", "done"}
        BY <3>1, <1>3 DEF ClientInv
      <3>4. Holders' \subseteq Holders \ {cmd} /\ Refusing' \subseteq Refusing \ {cmd}
        BY <3>3, <1>2 DEF Holders, Refusing, othersKeep
      <3> QED BY <3>1, <3>2, <3>4, PlaceLeft
    <2> QED BY <2>1, <2>2
  <1>9. StateInv'
    <2>1. CASE TakeControl
      BY <2>1, <1>1 DEF TakeControl, Back, StateInv, Shown, othersKeep
    <2>2. CASE TakeJob
      BY <2>2, <1>1 DEF TakeJob, StateInv, Shown, othersKeep
    <2> QED BY <2>1, <2>2
  <1>10. DeadlineFresh'
    BY <1>1 DEF DeadlineFresh
  <1>11. EngineTypes'
    <2>1. EngineTypes
      BY DEF EngineTypeOK, EngineTypes, EnginePlaces, Messages
    <2>2. status' \in [Clients -> {0, 200, 400, 500, 503}]
      BY <2>1, ReplyTyped DEF TakeControl, TakeJob, EngineTypes
    <2>3. lifecycle' \in States /\ cmd' \in Messages \cup {Nobody} /\ rows' \subseteq Clients
      BY <2>1 DEF TakeControl, TakeJob, EngineTypes, States
    <2> QED BY <2>1, <2>2, <2>3, <1>1 DEF EngineTypes, EnginePlaces
  <1>12. EngineTypeOK'
    BY <1>2, <1>4, <1>8, <1>11, EngineTypesFrame
  <1> QED BY <1>2, <1>5, <1>6, <1>7, <1>8, <1>9, <1>10, <1>12

(* What it refuses, it settles too. *)
LEMMA RefuseSteps ==
    ASSUME EngineInv, refuse_queued, othersKeep
    PROVE  EngineInv'
  <1> USE DEF EngineInv
  <1> DEFINE m == Head(chan)
  <1>n. Control \cap Clients = {} /\ Messages = Clients \cup Control
    BY EngineAssumption DEF Control, Messages
  <1>1. /\ chan # <<>> /\ chan' = Tail(chan) /\ engine \in {"drain", "exit500", "exit503"}
        /\ UNCHANGED <<lifecycle, engine, cmd, rows, loaded, recent, deadline, process>>
        /\ waiting' = LeftBy(m)
        /\ settings_pending' = (settings_pending /\ m # "settings")
        /\ arrival_pending' = (arrival_pending /\ m # "arrival")
    BY DEF refuse_queued, engineVars
  <1>2. ChanInv' /\ m \in Messages /\ Sent(m) /\ \A n : Sent(n)' <=> Sent(n) /\ n # m
    BY <1>1, ChanDropped
  <1>11. EngineTypes'
    <2>1. EngineTypes
      BY DEF EngineTypeOK, EngineTypes, EnginePlaces, Messages
    <2>2. status' \in [Clients -> {0, 200, 400, 500, 503}]
      <3>1. \E code \in {200, 500, 503} : Reply({m}, code)
        BY DEF refuse_queued
      <3> QED BY <3>1, <2>1, ReplyTyped DEF EngineTypes
    <2> QED BY <2>1, <2>2, <1>1 DEF EngineTypes
  <1> HIDE DEF m
  <1>5. ClientInv'
    BY <1>2 DEF ClientInv, othersKeep
  <1>6. ArrivalInv'
    BY <1>1, <1>2 DEF ArrivalInv, othersKeep
  <1>7. SettingsInv' /\ WakeInv'
    BY <1>1, <1>2 DEF SettingsInv, WakeInv, Open, othersKeep, timerVars
  <1>8. PlacesInv'
    <2>1. CASE m \notin Clients
      <3>1. waiting' = waiting
        BY <2>1, <1>1 DEF LeftBy
      <3> QED BY <3>1, <1>2, SameHolders, PlacesKept DEF othersKeep
    <2>2. CASE m \in Clients
      <3>1. waiting' = waiting - 1
        BY <2>2, <1>1 DEF LeftBy
      <3>2. m \in Holders \cup Refusing
        BY <2>2, <1>2 DEF Holders
      <3>3. http[m] \in {"relay", "done"}
        BY <2>2, <1>2 DEF ClientInv
      <3>4. Holders' \subseteq Holders \ {m} /\ Refusing' \subseteq Refusing \ {m}
        BY <3>3, <1>2 DEF Holders, Refusing, othersKeep
      <3> QED BY <3>1, <3>2, <3>4, PlaceLeft
    <2> QED BY <2>1, <2>2
  <1>9. StateInv' /\ DeadlineFresh'
    BY <1>1 DEF StateInv, Shown, DeadlineFresh, othersKeep
  <1>12. EngineTypeOK'
    <2>1. arrival_pending' \in BOOLEAN /\ settings_pending' \in BOOLEAN
      BY <1>1
    <2> QED BY <2>1, <1>2, <1>8, <1>11, EngineTypesFrame
  <1> QED BY <1>2, <1>5, <1>6, <1>7, <1>8, <1>9, <1>12

(* The receiver goes, and what was sent to it. *)
LEMMA ReturnSteps ==
    ASSUME EngineInv, Return, othersKeep
    PROVE  EngineInv'
  <1> USE DEF EngineInv
  <1>1. /\ chan' = <<>> /\ engine' = "gone" /\ loaded' = FALSE /\ status' = DroppedJobs
        /\ UNCHANGED <<waiting, arrival_pending, settings_pending, lifecycle, cmd, rows, recent,
                       deadline, process>>
    BY DEF Return
  <1>2. ChanInv' /\ \A n : ~Sent(n)'
    BY <1>1, ChanEmptied
  <1>3. ClientInv' /\ ArrivalInv' /\ PlacesInv'
    BY <1>1, <1>2, RequestsKept DEF othersKeep
  <1>4. SettingsInv' /\ WakeInv'
    BY <1>1, <1>2 DEF SettingsInv, WakeInv, Open, othersKeep, timerVars
  <1>5. StateInv' /\ DeadlineFresh'
    BY <1>1 DEF StateInv, DeadlineFresh, othersKeep
  <1>6. EngineTypes'
    <2>1. status' \in [Clients -> {0, 200, 400, 500, 503}]
      BY <1>1 DEF DroppedJobs, EngineTypeOK
    <2> QED BY <2>1, <1>1 DEF EngineTypeOK, EngineTypes, EnginePlaces, Messages
  <1>7. EngineTypeOK'
    BY <1>1, <1>2, <1>3, <1>6, EngineTypesFrame DEF EngineTypeOK
  <1> QED BY <1>2, <1>3, <1>4, <1>5, <1>7

------------------------------------------------------------------------------
(* The theorems. *)

LEMMA EngineInit == Init => EngineInv
  <1> SUFFICES ASSUME Init PROVE EngineInv
    OBVIOUS
  <1> USE DEF Init
  <1>1. ChanInv /\ \A n : ~Sent(n)
    <2>1. \A n : ~InChan(n) /\ ~InHand(n)
      BY Emptied DEF InChan, InHand
    <2> QED BY <2>1, Emptied DEF ChanInv, Sent
  <1>2. ClientInv /\ ArrivalInv /\ SettingsInv /\ WakeInv
    BY <1>1 DEF ClientInv, ArrivalInv, SettingsInv, WakeInv
  <1>3. PlacesInv
    <2>1. Holders = {} /\ Refusing = {}
      BY <1>1 DEF Holders, Refusing
    <2> QED BY <2>1, FS_EmptySet, EngineAssumption DEF PlacesInv
  <1>4. DeadlineFresh /\ StateInv
    BY DEF DeadlineFresh, StateInv
  <1>5. EngineTypeOK
    <2>1. chan \in Seq(Clients \cup Control)
      BY <1>1 DEF ChanInv, Messages
    <2> QED BY <2>1, EngineAssumption DEF EngineTypeOK, States
  <1> QED BY <1>1, <1>2, <1>3, <1>4, <1>5 DEF EngineInv

LEMMA EngineStep == EngineInv /\ [Next]_vars => EngineInv'
  <1> SUFFICES ASSUME EngineInv, [Next]_vars PROVE EngineInv'
    OBVIOUS
  <1>1. CASE \E c \in Clients : Http(c)
    BY <1>1, HttpSteps
  <1>2. CASE Recorder
    BY <1>2, RecorderSteps
  <1>3. CASE SignalThread
    BY <1>3, SignalSteps
  <1>4. CASE Engine
    <2>1. othersKeep /\ (Quiet \/ Receive \/ TakeControl \/ TakeJob \/ refuse_queued \/ Return)
      BY <1>4 DEF Engine, Quiet
    <2> QED BY <2>1, QuietSteps, ReceiveSteps, TakeSteps, RefuseSteps, ReturnSteps
  <1>5. CASE Ended \/ UNCHANGED vars
    <2>1. UNCHANGED <<queueVars, lifecycle, requested, http, status, engineVars, timerVars, signal>>
          /\ process' \in {"up", "ended", "exited"}
      BY <1>5 DEF Ended, vars, EngineInv, EngineTypeOK
    <2> USE DEF queueVars, engineVars, timerVars
    <2>2. ChanInv' /\ \A m : (InChan(m)' <=> InChan(m)) /\ (Sent(m)' <=> Sent(m))
      BY <2>1, ChanKept DEF HandKept, EngineInv
    <2>3. ClientInv' /\ ArrivalInv' /\ PlacesInv'
      BY <2>1, <2>2, RequestsKept DEF EngineInv
    <2>4. SettingsInv' /\ WakeInv' /\ DeadlineFresh' /\ StateInv'
      BY <2>1, <2>2, HttpFrame DEF EngineInv, httpKeeps
    <2>5. EngineTypeOK'
      BY <2>1 DEF EngineInv, EngineTypeOK
    <2> QED BY <2>2, <2>3, <2>4, <2>5 DEF EngineInv
  <1> QED BY <1>1, <1>2, <1>3, <1>4, <1>5 DEF Next

(* An engine that waits with an older deadline has a nudge on its way to    *)
(* it, and what /health shows while it waits is what it will do.            *)
THEOREM EngineIsSafe == Spec => []EngineSafe
  <1>1. EngineInv => EngineSafe
    BY DEF EngineInv, EngineSafe, StateInv, Shown, StateHonest
  <1> QED BY <1>1, EngineInit, EngineStep, PTL DEF Spec

(* Nobody who holds a claim on the channel ever finds it full (the          *)
(* reckoning of EngineQueue::capacity).                                     *)
THEOREM RoomIsThere == Spec => []RoomForAll
  BY RoomFollows, EngineInit, EngineStep, PTL DEF Spec

(* A request read after the stop was asked for is refused, whatever state   *)
(* the engine stored meanwhile (handle).                                    *)
THEOREM DoorStaysClosed == Spec => DoorClosed
  <1> DEFINE Refuses == \A c \in Clients : requested /\ http[c] = "read" => http'[c] \in {"read", "done"}
  <1>1. ASSUME EngineInv, [Next]_vars PROVE [Refuses]_vars
    <2> SUFFICES ASSUME Next, NEW d \in Clients, requested, http[d] = "read"
                 PROVE  http'[d] \in {"read", "done"}
      BY <1>1
    <2>1. ASSUME NEW c \in Clients, Http(c) PROVE http'[d] \in {"read", "done"}
      <3>1. CASE c = d
        <4>1. Read(d)
          BY <2>1, <3>1 DEF Http, Arrive, BadRequest, admit, Refuse, Send, relay
        <4>2. finish(d, 503)
          BY <4>1 DEF Read, state_now
        <4> QED BY <4>2, <1>1 DEF finish, goto, EngineInv, EngineTypeOK
      <3>2. CASE c # d
        <4>1. \E pc : goto(c, pc)
          BY <2>1 DEF Http, Read, Arrive, BadRequest, admit, Refuse, Send, relay, finish
        <4> QED BY <4>1, <3>2, <1>1 DEF goto, EngineInv, EngineTypeOK
      <3> QED BY <3>1, <3>2
    <2>2. CASE Recorder \/ SignalThread \/ Engine \/ Ended
      BY <2>2 DEF Recorder, SignalThread, Engine, Ended, othersKeep
    <2> QED BY <2>1, <2>2 DEF Next
  <1>2. Spec => []EngineInv /\ [][Next]_vars
    BY EngineInit, EngineStep, PTL DEF Spec
  <1> QED BY <1>1, <1>2, PTL DEF DoorClosed

=============================================================================
