-------------------------- MODULE ScanRequestsProofs --------------------------
(***************************************************************************)
(* Safety of learning scans for any calls, topics, settings and numbers of *)
(* starts.  Three arguments: the shared producer, where a call that was    *)
(* alone finds the connection it has made (ProducerInv); the parameters,   *)
(* bounded by the parser whatever it is given, and never changed once a    *)
(* message carries them (PayloadInv, ParamsInv); the consumer, which never *)
(* has a gap behind its position (LoopInv), from which follows that it     *)
(* implements ConsumerContract.                                            *)
(***************************************************************************)
EXTENDS ScanRequests, TLAPS

\* Two calls under way have met; a call that was alone is connected; a send
\* is cut or refused only for calls that have met, or by a fault.
ProducerInv ==
  /\ ProducerTypeOK
  /\ \A t \in Topic : Len(topics[t]) <= MaxLen
  /\ \A c, d \in Call :
       c # d /\ callPc[c] \in Active /\ callPc[d] \in Active =>
         c \in overlap /\ d \in overlap
  /\ \A c \in Call : callPc[c] \in Using /\ c \notin overlap =>
       connectionStatus = "CONNECTED"
  /\ connectionStatus = "CONNECTED" => \E c \in Call : callPc[c] \in Using
  /\ cut \subseteq overlap
  /\ \A c \in failed : c \in overlap \/ fault
  /\ FailureHasCause

\* A topic holds messages of its own calls; they carry bounded settings.
PayloadInv ==
  /\ \A t \in Topic : \A i \in 1 .. Len(topics[t]) :
       TopicOf[topics[t][i]] = t /\ callPc[topics[t][i]] # "new"
  /\ \A c \in Call :
       /\ TopicOf[c] = ScanTopic /\ callPc[c] # "new" => payload[c] # NoRow
       /\ payload[c] # NoRow => payload[c] \in Settings /\ InBounds(payload[c])

\* The parameters of the scan in hand are those of its message.
ParamsInv ==
  pc \in {"rbac", "idor"} =>
    /\ rbacParams = Only(RbacKey, payload[topics[ScanTopic][msg + 1]])
    /\ idorParams = Only(IdorKey, payload[topics[ScanTopic][msg + 1]])

InHand == pc \in {"rbac", "idor", "commit"}

\* Nothing behind the position is open but the message in hand.
LoopInv ==
  /\ position <= Len(topics[ScanTopic])
  /\ committed <= position
  /\ InHand => position = msg + 1 /\ committed <= msg
  /\ \A i \in 0 .. MaxLen : i < committed => i \in settled
  /\ pc # "down" => \A i \in 0 .. MaxLen :
       i < position => i \in settled \/ (pc \in {"rbac", "idor"} /\ i = msg)
  /\ pc = "commit" => msg \in whole
  /\ LastCommittedIsWhole

StoredTypeOK ==
  /\ payload \in [Call -> Settings \cup {NoRow}]
  /\ configuration \in Documents \cup {NoRow}
  /\ saves \in 0 .. MaxSaves

EngineTypeOK ==
  /\ committed \in 0 .. MaxLen
  /\ position \in 0 .. MaxLen
  /\ pc \in {"down", "fetch", "rbac", "idor", "commit"}
  /\ msg \in 0 .. MaxLen
  /\ rbacParams \in Settings
  /\ idorParams \in Settings
  /\ starts \in 0 .. MaxStarts
  /\ settled \in SUBSET (0 .. MaxLen)
  /\ whole \in SUBSET (0 .. MaxLen)

Inv ==
  /\ StoredTypeOK
  /\ EngineTypeOK
  /\ ProducerInv
  /\ PayloadInv
  /\ ParamsInv
  /\ LoopInv
-------------------------------------------------------------------------------
(* The parser.                                                             *)

\* The integer part is whole.
LEMMA TruncIsWhole ==
  ASSUME NEW v \in Int
  PROVE  Trunc(v) \in Int /\ Trunc(v) % 2 = 0
<1>1. CASE v >= 0
  <2>1. (v - (v % 2)) % 2 = 0
    BY <1>1
  <2>2. v - (v % 2) \in Int
    BY <1>1
  <2>. QED  BY <1>1, <2>1, <2>2 DEF Trunc
<1>2. CASE ~(v >= 0)
  <2>1. (v + ((-v) % 2)) % 2 = 0
    BY <1>2
  <2>2. v + ((-v) % 2) \in Int
    BY <1>2
  <2>. QED  BY <1>2, <2>1, <2>2 DEF Trunc
<1>. QED  BY <1>1, <1>2

\* The bounds are an interval, whole for the two integers.
LEMMA BoundsAreSound ==
  ASSUME NEW k \in Key
  PROVE  /\ BOUNDS[k].min \in Int
         /\ BOUNDS[k].max \in Int
         /\ BOUNDS[k].min <= BOUNDS[k].max
         /\ k \in IntKey => BOUNDS[k].min % 2 = 0 /\ BOUNDS[k].max % 2 = 0
<1>1. CASE k = "learning_window_days"
  BY <1>1 DEF BOUNDS
<1>2. CASE k = "minimum_sample_size"
  BY <1>2 DEF BOUNDS
<1>3. CASE k = "violation_threshold_percent"
  BY <1>3 DEF BOUNDS, IntKey
<1>4. CASE k = "resource_dominance_percent"
  BY <1>4 DEF BOUNDS, IntKey
<1>. QED  BY <1>1, <1>2, <1>3, <1>4 DEF Key, IntKey

\* Whatever a form or a document holds, the parser returns settings the
\* engine can decode, within the bounds.
LEMMA ParsedIsBounded ==
  ASSUME NEW doc \in Documents
  PROVE  /\ parseLearningScanSettingsValue(doc) \in Settings
         /\ InBounds(parseLearningScanSettingsValue(doc))
<1>. DEFINE parsed == parseLearningScanSettingsValue(doc)
<1>1. \A k \in Key : numFromJson(doc, k) \in Int
  BY DEF numFromJson, Documents, DEFAULT_LEARNING_SCAN_SETTINGS, Key, IntKey
<1>2. ASSUME NEW k \in Key
      PROVE  /\ parsed[k] \in Int
             /\ BOUNDS[k].min <= parsed[k] /\ parsed[k] <= BOUNDS[k].max
             /\ k \in IntKey => parsed[k] % 2 = 0
  <2>. DEFINE n == numFromJson(doc, k)
              v == IF k \in IntKey THEN Trunc(n) ELSE n
              lo == BOUNDS[k].min
              hi == BOUNDS[k].max
  <2>1. /\ lo \in Int /\ hi \in Int /\ lo <= hi
        /\ k \in IntKey => lo % 2 = 0 /\ hi % 2 = 0
    BY BoundsAreSound
  <2>2. n \in Int
    BY <1>1
  <2>3. v \in Int /\ (k \in IntKey => v % 2 = 0)
    <3>. HIDE DEF n
    <3>. QED  BY <2>2, TruncIsWhole
  <2>4. parsed[k] = IF v < lo THEN lo ELSE IF v > hi THEN hi ELSE v
    BY DEF parseLearningScanSettingsValue, ClampNumber, Clamp
  <2>. HIDE DEF parsed, v, lo, hi
  <2>5. /\ parsed[k] \in Int
        /\ lo <= parsed[k] /\ parsed[k] <= hi
    BY <2>1, <2>3, <2>4
  <2>6. parsed[k] \in {lo, hi, v}
    BY <2>4
  <2>7. k \in IntKey => parsed[k] % 2 = 0
    BY <2>1, <2>3, <2>6
  <2>. QED  BY <2>5, <2>7 DEF lo, hi
<1>3. parsed = [k \in Key |-> ClampNumber(k, numFromJson(doc, k))]
  BY DEF parseLearningScanSettingsValue
<1>4. parsed \in Settings
  <2>1. parsed = [k \in Key |-> parsed[k]]
    BY <1>3
  <2>. HIDE DEF parsed
  <2>. QED  BY <1>2, <2>1 DEF Settings
<1>5. InBounds(parsed)
  <2>1. IntKey \subseteq Key
    BY DEF Key
  <2>. HIDE DEF parsed
  <2>. QED  BY <1>2, <2>1 DEF InBounds
<1>. QED  BY <1>4, <1>5

\* The settings a scan is queued with, stored or default.
LEMMA SettingsAreBounded ==
  ASSUME configuration \in Documents \cup {NoRow}
  PROVE  /\ getLearningScanSettings \in Settings
         /\ InBounds(getLearningScanSettings)
<1>1. CASE configuration = NoRow
  <2>1. /\ DEFAULT_LEARNING_SCAN_SETTINGS \in Settings
        /\ InBounds(DEFAULT_LEARNING_SCAN_SETTINGS)
    BY DEF DEFAULT_LEARNING_SCAN_SETTINGS, Settings, InBounds, BOUNDS, Key,
           IntKey
  <2>. QED  BY <1>1, <2>1 DEF getLearningScanSettings
<1>2. CASE configuration # NoRow
  BY <1>2, ParsedIsBounded DEF getLearningScanSettings
<1>. QED  BY <1>1, <1>2
-------------------------------------------------------------------------------
(* The shared producer.                                                    *)

\* What is written is appended to the call's topic.
LEMMA WriteEffect ==
  ASSUME topics \in [Topic -> Seq(Call)],
         NEW c \in Call, NEW copies \in 0 .. 2,
         \A t \in Topic : Len(topics[t]) <= MaxLen,
         Write(c, copies)
  PROVE  /\ topics' \in [Topic -> Seq(Call)]
         /\ \A t \in Topic :
              /\ Len(topics'[t]) \in Nat
              /\ Len(topics[t]) <= Len(topics'[t])
              /\ Len(topics'[t]) <= MaxLen
              /\ \A i \in 1 .. Len(topics[t]) : topics'[t][i] = topics[t][i]
              /\ \A i \in 1 .. Len(topics'[t]) :
                   \/ i \in 1 .. Len(topics[t])
                   \/ topics'[t][i] = c /\ t = TopicOf[c]
<1>. DEFINE home == TopicOf[c]
            more == [i \in 1 .. copies |-> c]
            old == topics[home]
            new == old \o more
<1>1. home \in Topic
  BY TopicAssumption
<1>2. more \in Seq(Call) /\ Len(more) = copies
  OBVIOUS
<1>3. old \in Seq(Call) /\ Len(old) \in Nat
  BY <1>1
<1>4. /\ Len(old) + copies <= MaxLen
      /\ topics' = [topics EXCEPT ![home] = new]
  BY <1>1 DEF Write
<1>5. \A i \in 1 .. copies : more[i] = c
  OBVIOUS
<1>. HIDE DEF more, old
<1>6. /\ new \in Seq(Call)
      /\ Len(new) = Len(old) + copies
      /\ \A i \in 1 .. Len(old) : new[i] = old[i]
      /\ \A i \in 1 .. Len(new) :
           i \in 1 .. Len(old) \/ new[i] = c
  <2>1. new \in Seq(Call) /\ Len(new) = Len(old) + copies
    BY <1>2, <1>3
  <2>2. \A i \in 1 .. Len(old) : new[i] = old[i]
    BY <1>2, <1>3
  <2>3. ASSUME NEW i \in 1 .. Len(new), i \notin 1 .. Len(old)
        PROVE  new[i] = c
    <3>1. i - Len(old) \in 1 .. copies /\ i \in Nat /\ i > Len(old)
      BY <1>3, <2>1, <2>3
    <3>2. new[i] = more[i - Len(old)]
      BY <1>2, <1>3, <3>1
    <3>. QED  BY <1>5, <3>1, <3>2
  <2>. QED  BY <2>1, <2>2, <2>3
<1>. HIDE DEF new, home
<1>7. /\ topics'[home] = new
      /\ \A t \in Topic \ {home} : topics'[t] = topics[t]
      /\ topics' \in [Topic -> Seq(Call)]
  BY <1>1, <1>4, <1>6
<1>8. topics[home] = old
  BY DEF old
<1>. SUFFICES ASSUME NEW t \in Topic
              PROVE  /\ Len(topics'[t]) \in Nat
                     /\ Len(topics[t]) <= Len(topics'[t])
                     /\ Len(topics'[t]) <= MaxLen
                     /\ \A i \in 1 .. Len(topics[t]) :
                          topics'[t][i] = topics[t][i]
                     /\ \A i \in 1 .. Len(topics'[t]) :
                          \/ i \in 1 .. Len(topics[t])
                          \/ topics'[t][i] = c /\ t = home
  BY <1>7 DEF home
<1>9. CASE t = home
  BY <1>3, <1>4, <1>6, <1>7, <1>8, <1>9
<1>10. CASE t # home
  <2>1. topics'[t] = topics[t] /\ Len(topics[t]) \in Nat
    BY <1>7, <1>10
  <2>. QED  BY <2>1
<1>. QED  BY <1>9, <1>10

\* A call that moves on.
LEMMA GoEffect ==
  ASSUME ProducerTypeOK, NEW c \in Call,
         NEW label \in {"new"} \cup Active \cup Over, Go(c, label)
  PROVE  /\ callPc' \in [Call -> {"new"} \cup Active \cup Over]
         /\ callPc'[c] = label
         /\ \A d \in Call \ {c} : callPc'[d] = callPc[d]
BY DEF Go, ProducerTypeOK

\* One step of one call.
LEMMA ProducerStep ==
  ASSUME ProducerInv, NEW c \in Call, Connect(c) \/ Produce(c)
  PROVE  ProducerInv'
<1>. DEFINE Met == \A a, d \in Call :
                     a # d /\ callPc[a] \in Active /\ callPc[d] \in Active =>
                       a \in overlap /\ d \in overlap
            Alone == \A d \in Call : callPc[d] \in Using /\ d \notin overlap =>
                       connectionStatus = "CONNECTED"
            Used == connectionStatus = "CONNECTED" =>
                      \E d \in Call : callPc[d] \in Using
            Cause == /\ cut \subseteq overlap
                     /\ \A d \in failed : d \in overlap \/ fault
            Short == \A t \in Topic : Len(topics[t]) <= MaxLen
<1>1. ProducerTypeOK /\ Met /\ Alone /\ Used /\ Cause /\ Short
      /\ FailureHasCause
  BY DEF ProducerInv
<1>2. \A d \in Call : callPc[c] \in Active /\ d \in Others(c) =>
        c \in overlap /\ d \in overlap
  BY <1>1 DEF Others
<1>3. SUFFICES ProducerTypeOK' /\ Met' /\ Alone' /\ Used' /\ Cause' /\ Short'
               /\ FailureHasCause'
  BY DEF ProducerInv
<1>. USE DEF Active, Using, Connecting, Over
<1>4. CASE Connect(c)
  <2>1. /\ callPc[c] = "new"
        /\ Go(c, "connecting")
        /\ UNCHANGED <<connectionStatus, failed, cut, topics, fault>>
        /\ overlap \subseteq overlap'
        /\ overlap' \in SUBSET Call
        /\ \A d \in Others(c) : c \in overlap' /\ d \in overlap'
    BY <1>1, <1>4 DEF Connect, Others, ProducerTypeOK
  <2>2. /\ callPc' \in [Call -> {"new"} \cup Active \cup Over]
        /\ callPc'[c] = "connecting"
        /\ \A d \in Call \ {c} : callPc'[d] = callPc[d]
    BY <1>1, <2>1, GoEffect
  <2>3. ProducerTypeOK'
    BY <1>1, <2>1, <2>2 DEF ProducerTypeOK
  <2>4. Met'
    BY <1>1, <2>1, <2>2 DEF Others
  <2>5. Alone'
    BY <1>1, <1>2, <2>1, <2>2
  <2>6. Used'
    BY <1>1, <2>1, <2>2
  <2>7. Cause'
    BY <1>1, <1>2, <2>1, <2>2
  <2>8. Short'
    BY <1>1, <2>1
  <2>9. FailureHasCause'
    BY <1>1, <2>1, <2>2 DEF FailureHasCause
  <2>. QED  BY <2>3, <2>4, <2>5, <2>6, <2>7, <2>8, <2>9
<1>5. CASE Connected(c)
  <2>1. /\ callPc[c] = "connecting"
        /\ Go(c, "ready")
        /\ UNCHANGED <<failed, cut, topics, overlap, fault>>
        /\ connectionStatus' = "CONNECTED"
    BY <1>1, <1>5 DEF Connected
  <2>2. /\ callPc' \in [Call -> {"new"} \cup Active \cup Over]
        /\ callPc'[c] = "ready"
        /\ \A d \in Call \ {c} : callPc'[d] = callPc[d]
    BY <1>1, <2>1, GoEffect
  <2>3. ProducerTypeOK'
    BY <1>1, <2>1, <2>2 DEF ProducerTypeOK
  <2>4. Met'
    BY <1>1, <2>1, <2>2
  <2>5. Alone'
    BY <1>1, <1>2, <2>1, <2>2 DEF Others
  <2>6. Used'
    BY <1>1, <2>1, <2>2
  <2>7. Cause'
    BY <1>1, <1>2, <2>1, <2>2
  <2>8. Short'
    BY <1>1, <2>1
  <2>9. FailureHasCause'
    BY <1>1, <2>1, <2>2 DEF FailureHasCause
  <2>. QED  BY <2>3, <2>4, <2>5, <2>6, <2>7, <2>8, <2>9
<1>6. CASE ConnectFails(c)
  <2>1. /\ callPc[c] = "connecting"
        /\ Go(c, "raised")
        /\ UNCHANGED <<connectionStatus, failed, cut, topics, overlap>>
        /\ fault' = TRUE
    BY <1>1, <1>6 DEF ConnectFails
  <2>2. /\ callPc' \in [Call -> {"new"} \cup Active \cup Over]
        /\ callPc'[c] = "raised"
        /\ \A d \in Call \ {c} : callPc'[d] = callPc[d]
    BY <1>1, <2>1, GoEffect
  <2>3. ProducerTypeOK'
    BY <1>1, <2>1, <2>2 DEF ProducerTypeOK
  <2>4. Met'
    BY <1>1, <2>1, <2>2
  <2>5. Alone'
    BY <1>1, <1>2, <2>1, <2>2
  <2>6. Used'
    BY <1>1, <2>1, <2>2
  <2>7. Cause'
    BY <1>1, <1>2, <2>1, <2>2
  <2>8. Short'
    BY <1>1, <2>1
  <2>9. FailureHasCause'
    BY <1>1, <2>1, <2>2 DEF FailureHasCause
  <2>. QED  BY <2>3, <2>4, <2>5, <2>6, <2>7, <2>8, <2>9
<1>7. CASE Send(c)
  <2>1. /\ callPc[c] = "ready"
        /\ Go(c, "sending")
        /\ UNCHANGED <<connectionStatus, failed, cut, topics, overlap, fault>>
    BY <1>1, <1>7 DEF Send
  <2>2. /\ callPc' \in [Call -> {"new"} \cup Active \cup Over]
        /\ callPc'[c] = "sending"
        /\ \A d \in Call \ {c} : callPc'[d] = callPc[d]
    BY <1>1, <2>1, GoEffect
  <2>3. ProducerTypeOK'
    BY <1>1, <2>1, <2>2 DEF ProducerTypeOK
  <2>4. Met'
    BY <1>1, <2>1, <2>2
  <2>5. Alone'
    BY <1>1, <1>2, <2>1, <2>2
  <2>6. Used'
    BY <1>1, <2>1, <2>2
  <2>7. Cause'
    BY <1>1, <1>2, <2>1, <2>2
  <2>8. Short'
    BY <1>1, <2>1
  <2>9. FailureHasCause'
    BY <1>1, <2>1, <2>2 DEF FailureHasCause
  <2>. QED  BY <2>3, <2>4, <2>5, <2>6, <2>7, <2>8, <2>9
<1>8. CASE SendRefused(c)
  <2>1. /\ callPc[c] = "ready"
        /\ Go(c, "closing")
        /\ UNCHANGED <<connectionStatus, cut, topics, overlap, fault>>
        /\ failed' = failed \cup {c}
        /\ connectionStatus # "CONNECTED"
    BY <1>1, <1>8 DEF SendRefused, AfterFailure
  <2>2. /\ callPc' \in [Call -> {"new"} \cup Active \cup Over]
        /\ callPc'[c] = "closing"
        /\ \A d \in Call \ {c} : callPc'[d] = callPc[d]
    BY <1>1, <2>1, GoEffect
  <2>3. ProducerTypeOK'
    BY <1>1, <2>1, <2>2 DEF ProducerTypeOK
  <2>4. Met'
    BY <1>1, <2>1, <2>2
  <2>5. Alone'
    BY <1>1, <1>2, <2>1, <2>2
  <2>6. Used'
    BY <1>1, <2>1, <2>2
  <2>7. Cause'
    BY <1>1, <1>2, <2>1, <2>2
  <2>8. Short'
    BY <1>1, <2>1
  <2>9. FailureHasCause'
    BY <1>1, <2>1, <2>2 DEF FailureHasCause
  <2>. QED  BY <2>3, <2>4, <2>5, <2>6, <2>7, <2>8, <2>9
<1>9. CASE SendSucceeds(c)
  <2>1. /\ callPc[c] = "sending"
        /\ Go(c, "closing")
        /\ UNCHANGED <<connectionStatus, failed, cut, overlap, fault>>
        /\ \E copies \in 0 .. 2 : Write(c, copies)
    BY <1>1, <1>9 DEF SendSucceeds
  <2>2. /\ callPc' \in [Call -> {"new"} \cup Active \cup Over]
        /\ callPc'[c] = "closing"
        /\ \A d \in Call \ {c} : callPc'[d] = callPc[d]
    BY <1>1, <2>1, GoEffect
  <2>3. topics' \in [Topic -> Seq(Call)] /\ Short'
    <3>1. topics \in [Topic -> Seq(Call)]
      BY <1>1 DEF ProducerTypeOK
    <3>. QED  BY <1>1, <2>1, <3>1, WriteEffect
  <2>4. ProducerTypeOK'
    BY <1>1, <2>1, <2>2, <2>3 DEF ProducerTypeOK
  <2>5. Met'
    BY <1>1, <2>1, <2>2
  <2>6. Alone'
    BY <1>1, <1>2, <2>1, <2>2
  <2>7. Used'
    BY <1>1, <2>1, <2>2
  <2>8. Cause'
    BY <1>1, <1>2, <2>1, <2>2
  <2>9. FailureHasCause'
    BY <1>1, <2>1, <2>2 DEF FailureHasCause
  <2>. QED  BY <2>4, <2>5, <2>6, <2>7, <2>8, <2>3, <2>9
<1>10. CASE SendFails(c)
  <2>1. /\ callPc[c] = "sending"
        /\ Go(c, "closing")
        /\ UNCHANGED <<connectionStatus, cut, overlap>>
        /\ failed' = failed \cup {c}
        /\ \E copies \in 0 .. 2 : Write(c, copies)
        /\ fault' \in BOOLEAN
        /\ fault => fault'
        /\ c \in cut \/ fault'
    <3>1. /\ callPc[c] = "sending"
          /\ Go(c, "closing")
          /\ UNCHANGED <<connectionStatus, cut, overlap>>
          /\ failed' = failed \cup {c}
          /\ \E copies \in 0 .. 1 : Write(c, copies)
          /\ fault' = (fault \/ c \notin cut)
      BY <1>10 DEF SendFails, AfterFailure
    <3>2. fault' \in BOOLEAN /\ (fault => fault') /\ (c \in cut \/ fault')
      BY <1>1, <3>1 DEF ProducerTypeOK
    <3>3. \E copies \in 0 .. 2 : Write(c, copies)
      BY <3>1
    <3>. QED  BY <3>1, <3>2, <3>3
  <2>2. /\ callPc' \in [Call -> {"new"} \cup Active \cup Over]
        /\ callPc'[c] = "closing"
        /\ \A d \in Call \ {c} : callPc'[d] = callPc[d]
    BY <1>1, <2>1, GoEffect
  <2>3. topics' \in [Topic -> Seq(Call)] /\ Short'
    <3>1. topics \in [Topic -> Seq(Call)]
      BY <1>1 DEF ProducerTypeOK
    <3>. QED  BY <1>1, <2>1, <3>1, WriteEffect
  <2>4. ProducerTypeOK'
    BY <1>1, <2>1, <2>2, <2>3 DEF ProducerTypeOK
  <2>5. Met'
    BY <1>1, <2>1, <2>2
  <2>6. Alone'
    BY <1>1, <1>2, <2>1, <2>2
  <2>7. Used'
    BY <1>1, <2>1, <2>2
  <2>8. Cause'
    BY <1>1, <1>2, <2>1, <2>2
  <2>9. FailureHasCause'
    BY <1>1, <2>1, <2>2 DEF FailureHasCause
  <2>. QED  BY <2>4, <2>5, <2>6, <2>7, <2>8, <2>3, <2>9
<1>11. CASE Disconnect(c)
  <2>1. /\ callPc[c] = "closing"
        /\ Go(c, "disconnecting")
        /\ UNCHANGED <<failed, topics, overlap, fault>>
        /\ connectionStatus' = "DISCONNECTING"
        /\ cut' \subseteq cut \cup Others(c)
    BY <1>1, <1>11 DEF Disconnect, CutOff
  <2>2. /\ callPc' \in [Call -> {"new"} \cup Active \cup Over]
        /\ callPc'[c] = "disconnecting"
        /\ \A d \in Call \ {c} : callPc'[d] = callPc[d]
    BY <1>1, <2>1, GoEffect
  <2>3. ProducerTypeOK'
    BY <1>1, <2>1, <2>2 DEF ProducerTypeOK, Others
  <2>4. Met'
    BY <1>1, <2>1, <2>2
  <2>5. Alone'
    BY <1>1, <1>2, <2>1, <2>2 DEF Others
  <2>6. Used'
    BY <1>1, <2>1, <2>2
  <2>7. Cause'
    <3>1. \A d \in Others(c) : d \in overlap
      BY <1>2, <2>1 DEF Others
    <3>. QED  BY <1>1, <2>1, <3>1
  <2>8. Short'
    BY <1>1, <2>1
  <2>9. FailureHasCause'
    BY <1>1, <2>1, <2>2 DEF FailureHasCause
  <2>. QED  BY <2>3, <2>4, <2>5, <2>6, <2>7, <2>8, <2>9
<1>12. CASE DisconnectFails(c)
  <2>1. /\ callPc[c] = "disconnecting"
        /\ Go(c, "raised")
        /\ UNCHANGED <<connectionStatus, failed, cut, topics, overlap>>
        /\ fault' = TRUE
    BY <1>1, <1>12 DEF DisconnectFails
  <2>2. /\ callPc' \in [Call -> {"new"} \cup Active \cup Over]
        /\ callPc'[c] = "raised"
        /\ \A d \in Call \ {c} : callPc'[d] = callPc[d]
    BY <1>1, <2>1, GoEffect
  <2>3. ProducerTypeOK'
    BY <1>1, <2>1, <2>2 DEF ProducerTypeOK
  <2>4. Met'
    BY <1>1, <2>1, <2>2
  <2>5. Alone'
    BY <1>1, <1>2, <2>1, <2>2
  <2>6. Used'
    BY <1>1, <2>1, <2>2
  <2>7. Cause'
    BY <1>1, <1>2, <2>1, <2>2
  <2>8. Short'
    BY <1>1, <2>1
  <2>9. FailureHasCause'
    BY <1>1, <2>1, <2>2 DEF FailureHasCause
  <2>. QED  BY <2>3, <2>4, <2>5, <2>6, <2>7, <2>8, <2>9
<1>13. CASE Disconnected(c)
  <2>1. /\ callPc[c] = "disconnecting"
        /\ \/ Go(c, "raised") /\ c \in failed
           \/ Go(c, "returned")
        /\ UNCHANGED <<failed, topics, overlap, fault>>
        /\ connectionStatus' = "DISCONNECTED"
        /\ cut' \subseteq cut \cup Others(c)
    BY <1>1, <1>13 DEF Disconnected, CutOff
  <2>2. /\ callPc' \in [Call -> {"new"} \cup Active \cup Over]
        /\ callPc'[c] \in {"raised", "returned"}
        /\ callPc'[c] = "raised" => c \in failed
        /\ \A d \in Call \ {c} : callPc'[d] = callPc[d]
    BY <1>1, <2>1, GoEffect
  <2>3. ProducerTypeOK'
    BY <1>1, <2>1, <2>2 DEF ProducerTypeOK, Others
  <2>4. Met'
    BY <1>1, <2>1, <2>2
  <2>5. Alone'
    BY <1>1, <1>2, <2>1, <2>2 DEF Others
  <2>6. Used'
    BY <1>1, <2>1, <2>2
  <2>7. Cause'
    <3>1. \A d \in Others(c) : d \in overlap
      BY <1>2, <2>1 DEF Others
    <3>. QED  BY <1>1, <2>1, <3>1
  <2>8. Short'
    BY <1>1, <2>1
  <2>9. FailureHasCause'
    BY <1>1, <2>1, <2>2 DEF FailureHasCause
  <2>. QED  BY <2>3, <2>4, <2>5, <2>6, <2>7, <2>8, <2>9
<1>. QED  BY <1>4, <1>5, <1>6, <1>7, <1>8, <1>9, <1>10, <1>11, <1>12, <1>13
          DEF Produce
-------------------------------------------------------------------------------
(* The dashboard.                                                          *)

\* A topic only grows, by messages of the call that sends.
LEMMA TopicsGrow ==
  ASSUME ProducerInv, NEW c \in Call, Connect(c) \/ Produce(c)
  PROVE  /\ \A t \in Topic :
              /\ Len(topics[t]) \in Nat /\ Len(topics'[t]) \in Nat
              /\ Len(topics[t]) <= Len(topics'[t])
              /\ \A i \in 1 .. Len(topics[t]) : topics'[t][i] = topics[t][i]
              /\ \A i \in 1 .. Len(topics'[t]) :
                   \/ i \in 1 .. Len(topics[t])
                   \/ topics'[t][i] = c /\ t = TopicOf[c]
         /\ callPc[c] = "new" => Connect(c)
         /\ callPc'[c] # "new"
         /\ \A d \in Call \ {c} : callPc'[d] = callPc[d]
<1>1. /\ topics \in [Topic -> Seq(Call)]
      /\ \A t \in Topic : Len(topics[t]) <= MaxLen
      /\ ProducerTypeOK
  BY DEF ProducerInv, ProducerTypeOK
<1>2. UNCHANGED topics \/ \E copies \in 0 .. 2 : Write(c, copies)
  <2>1. CASE SendSucceeds(c)
    <3>1. \E copies \in 1 .. 2 : Write(c, copies)
      BY <2>1 DEF SendSucceeds
    <3>. QED  BY <3>1
  <2>2. CASE SendFails(c)
    <3>1. \E copies \in 0 .. 1 : Write(c, copies)
      BY <2>2 DEF SendFails
    <3>. QED  BY <3>1
  <2>3. CASE ~SendSucceeds(c) /\ ~SendFails(c)
    BY <2>3 DEF Produce, Connect, Connected, ConnectFails, Send, SendRefused,
                Disconnect, Disconnected, DisconnectFails
  <2>. QED  BY <2>1, <2>2, <2>3
<1>3. \A t \in Topic :
        /\ Len(topics[t]) \in Nat /\ Len(topics'[t]) \in Nat
        /\ Len(topics[t]) <= Len(topics'[t])
        /\ \A i \in 1 .. Len(topics[t]) : topics'[t][i] = topics[t][i]
        /\ \A i \in 1 .. Len(topics'[t]) :
             \/ i \in 1 .. Len(topics[t])
             \/ topics'[t][i] = c /\ t = TopicOf[c]
  <2>1. \A t \in Topic : Len(topics[t]) \in Nat
    BY <1>1
  <2>2. CASE UNCHANGED topics
    BY <2>1, <2>2
  <2>3. CASE \E copies \in 0 .. 2 : Write(c, copies)
    BY <1>1, <2>1, <2>3, WriteEffect
  <2>. QED  BY <1>2, <2>2, <2>3
<1>4. callPc[c] = "new" => Connect(c)
  BY DEF Produce, Connected, ConnectFails, Send, SendRefused, SendSucceeds,
         SendFails, Disconnect, Disconnected, DisconnectFails
<1>5. \E label \in Active \cup Over : Go(c, label)
  BY DEF Produce, Connect, Connected, ConnectFails, Send, SendRefused,
         SendSucceeds, SendFails, Disconnect, Disconnected, DisconnectFails,
         AfterFailure, Active, Connecting, Using, Over
<1>6. callPc'[c] # "new" /\ \A d \in Call \ {c} : callPc'[d] = callPc[d]
  <2>1. PICK label \in Active \cup Over : Go(c, label)
    BY <1>5
  <2>2. label # "new"
    BY DEF Active, Connecting, Using, Over
  <2>3. label \in {"new"} \cup Active \cup Over
    BY <2>1
  <2>4. callPc'[c] = label /\ \A d \in Call \ {c} : callPc'[d] = callPc[d]
    BY <1>1, <2>1, <2>3, GoEffect
  <2>. QED  BY <2>2, <2>4
<1>. QED  BY <1>3, <1>4, <1>6

\* The message in hand is one that the topic holds.
LEMMA MessageInHand ==
  ASSUME EngineTypeOK, ProducerInv, LoopInv, pc \in {"rbac", "idor"}
  PROVE  msg + 1 \in 1 .. Len(topics[ScanTopic])
<1>1. Len(topics[ScanTopic]) \in Nat
  BY ScanAssumption DEF ProducerInv, ProducerTypeOK
<1>2. msg \in Nat /\ position = msg + 1 /\ position <= Len(topics[ScanTopic])
  BY LengthAssumption DEF EngineTypeOK, LoopInv, InHand
<1>. QED  BY <1>1, <1>2

\* A step of the producer, of a call that has its payload.
LEMMA CallStep ==
  ASSUME Inv, NEW c \in Call, Connect(c) \/ Produce(c),
         Connect(c) /\ TopicOf[c] = ScanTopic => payload[c] # NoRow,
         UNCHANGED <<payload, settings, engine>>
  PROVE  Inv'
<1>. USE DEF settings, engine
<1>1. ProducerInv'
  BY ProducerStep DEF Inv
<1>2. /\ \A t \in Topic :
           /\ Len(topics[t]) \in Nat /\ Len(topics'[t]) \in Nat
           /\ Len(topics[t]) <= Len(topics'[t])
           /\ \A i \in 1 .. Len(topics[t]) : topics'[t][i] = topics[t][i]
           /\ \A i \in 1 .. Len(topics'[t]) :
                \/ i \in 1 .. Len(topics[t])
                \/ topics'[t][i] = c /\ t = TopicOf[c]
      /\ callPc[c] = "new" => Connect(c)
      /\ callPc'[c] # "new"
      /\ \A d \in Call \ {c} : callPc'[d] = callPc[d]
  BY TopicsGrow DEF Inv
<1>3. StoredTypeOK' /\ EngineTypeOK'
  BY DEF Inv, StoredTypeOK, EngineTypeOK
<1>4. PayloadInv'
  <2>1. \A t \in Topic : \A i \in 1 .. Len(topics'[t]) :
          TopicOf[topics'[t][i]] = t /\ callPc'[topics'[t][i]] # "new"
    <3>. SUFFICES ASSUME NEW t \in Topic, NEW i \in 1 .. Len(topics'[t])
                  PROVE  /\ TopicOf[topics'[t][i]] = t
                         /\ callPc'[topics'[t][i]] # "new"
      OBVIOUS
    <3>1. CASE i \in 1 .. Len(topics[t])
      <4>1. topics'[t][i] = topics[t][i] /\ topics[t][i] \in Call
        BY <1>2, <3>1 DEF Inv, ProducerInv, ProducerTypeOK
      <4>2. TopicOf[topics[t][i]] = t /\ callPc[topics[t][i]] # "new"
        BY <3>1 DEF Inv, PayloadInv
      <4>. QED  BY <1>2, <4>1, <4>2
    <3>2. CASE i \notin 1 .. Len(topics[t])
      BY <1>2, <3>2
    <3>. QED  BY <3>1, <3>2
  <2>2. \A d \in Call :
          TopicOf[d] = ScanTopic /\ callPc'[d] # "new" => payload[d] # NoRow
    BY <1>2 DEF Inv, PayloadInv
  <2>. QED  BY <2>1, <2>2 DEF Inv, PayloadInv
<1>5. ParamsInv'
  <2>1. pc \in {"rbac", "idor"} =>
          topics'[ScanTopic][msg + 1] = topics[ScanTopic][msg + 1]
    BY <1>2, MessageInHand, ScanAssumption DEF Inv
  <2>. QED  BY <2>1 DEF Inv, ParamsInv
<1>6. LoopInv'
  <2>1. position <= Len(topics'[ScanTopic])
    BY <1>2, ScanAssumption, LengthAssumption DEF Inv, LoopInv, EngineTypeOK
  <2>. QED  BY <2>1 DEF Inv, LoopInv, InHand, LastCommittedIsWhole
<1>. QED  BY <1>1, <1>3, <1>4, <1>5, <1>6 DEF Inv

\* The settings are saved, or read for a scan.
LEMMA DashboardStep ==
  ASSUME Inv,
         \/ \E form \in Form : upsertLearningScanSettings(form)
         \/ \E c \in Call : RunLearningProcess(c)
  PROVE  Inv'
<1>. USE DEF settings, engine, producer
<1>1. CASE \E form \in Form : upsertLearningScanSettings(form)
  <2>. PICK form \in Form : upsertLearningScanSettings(form)
    BY <1>1
  <2>1. form \in Documents
    BY ScanAssumption DEF Settings, Documents
  <2>2. Settings \subseteq Documents
    BY DEF Settings, Documents
  <2>3. configuration' \in Documents
    BY <2>1, <2>2, ParsedIsBounded DEF upsertLearningScanSettings
  <2>4. saves' \in 0 .. MaxSaves
    BY ScanAssumption DEF Inv, StoredTypeOK, upsertLearningScanSettings
  <2>5. UNCHANGED <<producer, payload, engine>>
    BY DEF upsertLearningScanSettings
  <2>6. StoredTypeOK' /\ EngineTypeOK'
    BY <2>3, <2>4, <2>5 DEF Inv, StoredTypeOK, EngineTypeOK
  <2>7. ProducerInv' /\ PayloadInv'
    BY <2>5 DEF Inv, ProducerInv, ProducerTypeOK, FailureHasCause, PayloadInv
  <2>8. ParamsInv' /\ LoopInv'
    BY <2>5 DEF Inv, ParamsInv, LoopInv, InHand, LastCommittedIsWhole
  <2>. QED  BY <2>6, <2>7, <2>8 DEF Inv
<1>2. CASE \E c \in Call : RunLearningProcess(c)
  <2>. PICK c \in Call : RunLearningProcess(c)
    BY <1>2
  <2>1. /\ payload[c] = NoRow
        /\ payload' = [payload EXCEPT ![c] = getLearningScanSettings]
        /\ UNCHANGED <<producer, settings, engine>>
    BY DEF RunLearningProcess
  <2>2. /\ getLearningScanSettings \in Settings
        /\ InBounds(getLearningScanSettings)
    BY SettingsAreBounded DEF Inv, StoredTypeOK
  <2>3. NoRow \notin Settings
    BY ScanAssumption DEF Settings, Documents
  <2>. DEFINE s == getLearningScanSettings
  <2>4. payload' = [payload EXCEPT ![c] = s] /\ s \in Settings /\ InBounds(s)
    BY <2>1, <2>2
  <2>. HIDE DEF s
  <2>5. StoredTypeOK' /\ EngineTypeOK'
    BY <2>1, <2>4 DEF Inv, StoredTypeOK, EngineTypeOK
  <2>6. ProducerInv'
    BY <2>1 DEF Inv, ProducerInv, ProducerTypeOK, FailureHasCause
  <2>7. /\ payload'[c] = s
        /\ \A d \in Call \ {c} : payload'[d] = payload[d]
    BY <2>4 DEF Inv, StoredTypeOK
  <2>8. PayloadInv'
    <3>1. \A t \in Topic : \A i \in 1 .. Len(topics[t]) :
            TopicOf[topics[t][i]] = t /\ callPc[topics[t][i]] # "new"
      BY DEF Inv, PayloadInv
    <3>2. ASSUME NEW d \in Call
          PROVE  /\ TopicOf[d] = ScanTopic /\ callPc[d] # "new" =>
                      payload'[d] # NoRow
                 /\ payload'[d] # NoRow =>
                      payload'[d] \in Settings /\ InBounds(payload'[d])
      <4>1. CASE d = c
        BY <2>3, <2>4, <2>7, <4>1
      <4>2. CASE d # c
        BY <2>7, <4>2 DEF Inv, PayloadInv
      <4>. QED  BY <4>1, <4>2
    <3>3. \A d \in Call : InBounds(payload'[d]) <=> InBounds(payload[d])'
      BY DEF InBounds
    <3>. QED  BY <2>1, <3>1, <3>2, <3>3 DEF PayloadInv
  <2>9. ParamsInv'
    <3>1. CASE pc \in {"rbac", "idor"}
      <4>1. msg + 1 \in 1 .. Len(topics[ScanTopic])
        BY <3>1, MessageInHand DEF Inv
      <4>. DEFINE d == topics[ScanTopic][msg + 1]
      <4>2. d \in Call /\ TopicOf[d] = ScanTopic /\ callPc[d] # "new"
        BY <4>1, ScanAssumption
        DEF Inv, ProducerInv, ProducerTypeOK, PayloadInv
      <4>3. d # c
        BY <2>1, <4>2 DEF Inv, PayloadInv
      <4>4. payload'[d] = payload[d]
        BY <2>7, <4>2, <4>3
      <4>. QED  BY <2>1, <4>4 DEF Inv, ParamsInv
    <3>2. CASE pc \notin {"rbac", "idor"}
      BY <2>1, <3>2 DEF ParamsInv
    <3>. QED  BY <3>1, <3>2
  <2>10. LoopInv'
    BY <2>1 DEF Inv, LoopInv, InHand, LastCommittedIsWhole
  <2>. QED  BY <2>5, <2>6, <2>8, <2>9, <2>10 DEF Inv
<1>. QED  BY <1>1, <1>2
-------------------------------------------------------------------------------
(* The engine.                                                             *)

\* The parameters of a scan are settings, and those of the message: what the
\* parser let through decodes.
LEMMA OverrideDecodes ==
  ASSUME NEW s \in Settings, InBounds(s)
  PROVE  Override(s) = s
BY DEF Override, Decodes, InBounds

\* A scan takes what it does not find in the message from the environment.
LEMMA OnlyIsSettings ==
  ASSUME NEW keys, NEW s \in Settings
  PROVE  Only(keys, s) \in Settings
BY ScanAssumption DEF Only, Settings

\* What a step of the engine leaves alone.
LEMMA DashboardKept ==
  ASSUME Inv, UNCHANGED dashboard
  PROVE  /\ StoredTypeOK' /\ ProducerInv' /\ PayloadInv'
         /\ topics' = topics /\ payload' = payload
<1>1. UNCHANGED <<producer, payload, settings>>
  BY DEF dashboard
<1>. QED  BY <1>1 DEF Inv, StoredTypeOK, ProducerInv, ProducerTypeOK,
                      FailureHasCause, PayloadInv, producer, settings

\* Types of the loop, as the steps need them.
LEMMA LoopTypes ==
  ASSUME Inv
  PROVE  /\ committed \in Nat /\ position \in Nat /\ msg \in Nat
         /\ MaxLen \in Nat
         /\ Len(topics[ScanTopic]) \in Nat
         /\ Len(topics[ScanTopic]) <= MaxLen
BY ScanAssumption, LengthAssumption
DEF Inv, EngineTypeOK, ProducerInv, ProducerTypeOK

\* The engine starts behind the committed offset, or stops anywhere.
LEMMA StartStopStep ==
  ASSUME Inv, StartEngine \/ StopEngine
  PROVE  Inv'
<1>1. StoredTypeOK' /\ ProducerInv' /\ PayloadInv' /\ topics' = topics
      /\ payload' = payload
  BY DashboardKept DEF StartEngine, StopEngine
<1>2. CASE StartEngine
  <2>1. /\ position' = committed
        /\ pc' = "fetch"
        /\ starts < MaxStarts
        /\ starts' = starts + 1
        /\ UNCHANGED <<committed, msg, rbacParams, idorParams, settled, whole>>
    BY <1>2 DEF StartEngine
  <2>2. EngineTypeOK'
    BY <2>1, ScanAssumption DEF Inv, EngineTypeOK
  <2>3. ParamsInv'
    BY <2>1 DEF ParamsInv
  <2>4. committed <= Len(topics[ScanTopic])
    BY LoopTypes DEF Inv, LoopInv
  <2>5. \A i \in 0 .. MaxLen : i < committed => i \in settled
    BY DEF Inv, LoopInv
  <2>6. LoopInv'
    BY <1>1, <2>1, <2>4, <2>5, LoopTypes
    DEF Inv, LoopInv, InHand, LastCommittedIsWhole
  <2>. QED  BY <1>1, <2>2, <2>3, <2>6 DEF Inv
<1>3. CASE StopEngine
  <2>1. /\ pc' = "down"
        /\ UNCHANGED <<committed, position, msg, rbacParams, idorParams,
                       starts, settled, whole>>
    BY <1>3 DEF StopEngine
  <2>2. EngineTypeOK' /\ ParamsInv'
    BY <2>1 DEF Inv, EngineTypeOK, ParamsInv
  <2>3. LoopInv'
    BY <1>1, <2>1 DEF Inv, LoopInv, InHand, LastCommittedIsWhole
  <2>. QED  BY <1>1, <2>2, <2>3 DEF Inv
<1>. QED  BY <1>2, <1>3

\* The message fetched is one of the topic, and its settings are decoded.
LEMMA FetchStep ==
  ASSUME Inv, FetchMessage
  PROVE  Inv'
<1>1. StoredTypeOK' /\ ProducerInv' /\ PayloadInv' /\ topics' = topics
      /\ payload' = payload
  BY DashboardKept DEF FetchMessage
<1>. DEFINE c == topics[ScanTopic][position + 1]
            s == payload[c]
<1>2. /\ pc = "fetch"
      /\ position < Len(topics[ScanTopic])
      /\ rbacParams' = Only(RbacKey, Override(s))
      /\ idorParams' = Only(IdorKey, Override(s))
      /\ msg' = position
      /\ position' = position + 1
      /\ pc' = "rbac"
      /\ UNCHANGED <<committed, starts, settled, whole>>
  BY DEF FetchMessage, HasNext
<1>3. position + 1 \in 1 .. Len(topics[ScanTopic])
  BY <1>2, LoopTypes
<1>4. c \in Call /\ TopicOf[c] = ScanTopic /\ callPc[c] # "new"
  BY <1>3, ScanAssumption DEF Inv, ProducerInv, ProducerTypeOK, PayloadInv
<1>5. s \in Settings /\ InBounds(s)
  BY <1>4 DEF Inv, PayloadInv
<1>. HIDE DEF s
<1>6. rbacParams' = Only(RbacKey, s) /\ idorParams' = Only(IdorKey, s)
  BY <1>2, <1>5, OverrideDecodes
<1>7. rbacParams' \in Settings /\ idorParams' \in Settings
  BY <1>5, <1>6, OnlyIsSettings
<1>8. EngineTypeOK'
  BY <1>2, <1>3, <1>7, LoopTypes DEF Inv, EngineTypeOK
<1>9. ParamsInv'
  BY <1>1, <1>2, <1>6 DEF ParamsInv, s
<1>10. LoopInv'
  <2>1. committed <= position
    BY DEF Inv, LoopInv
  <2>2. \A i \in 0 .. MaxLen : i < position => i \in settled
    BY <1>2 DEF Inv, LoopInv
  <2>3. \A i \in 0 .. MaxLen : i < position + 1 => i < position \/ i = position
    BY LoopTypes
  <2>4. position + 1 <= Len(topics[ScanTopic]) /\ committed <= position + 1
    BY <1>3, <2>1, LoopTypes
  <2>5. \A i \in 0 .. MaxLen : i < committed => i \in settled
    BY DEF Inv, LoopInv
  <2>6. LastCommittedIsWhole'
    BY <1>2 DEF Inv, LoopInv, LastCommittedIsWhole
  <2>. QED  BY <1>1, <1>2, <2>1, <2>2, <2>3, <2>4, <2>5, <2>6
            DEF LoopInv, InHand
<1>. QED  BY <1>1, <1>8, <1>9, <1>10 DEF Inv

\* A scan that ends, one way or another, settles its message.
LEMMA ScanStep ==
  ASSUME Inv, RbacScan \/ RbacScanFails \/ IdorScan \/ IdorScanFails
  PROVE  Inv'
<1>1. StoredTypeOK' /\ ProducerInv' /\ PayloadInv' /\ topics' = topics
      /\ payload' = payload
  BY DashboardKept
  DEF RbacScan, RbacScanFails, Continue, IdorScan, IdorScanFails
<1>2. /\ pc \in {"rbac", "idor"}
      /\ UNCHANGED <<committed, position, msg, rbacParams, idorParams, starts>>
      /\ \/ /\ pc' = "idor"
            /\ UNCHANGED <<settled, whole>>
         \/ /\ pc' = "fetch"
            /\ settled' = settled \cup {msg}
            /\ UNCHANGED whole
         \/ /\ pc' = "commit"
            /\ settled' = settled \cup {msg}
            /\ whole' = whole \cup {msg}
  BY DEF RbacScan, RbacScanFails, Continue, IdorScan, IdorScanFails,
         AfterIdorFailure
<1>3. EngineTypeOK'
  BY <1>2 DEF Inv, EngineTypeOK
<1>4. ParamsInv'
  BY <1>1, <1>2 DEF Inv, ParamsInv
<1>5. LoopInv'
  <2>1. /\ position <= Len(topics[ScanTopic])
        /\ committed <= position
        /\ position = msg + 1
        /\ committed <= msg
    BY <1>2 DEF Inv, LoopInv, InHand
  <2>2. \A i \in 0 .. MaxLen : i < committed => i \in settled'
    BY <1>2 DEF Inv, LoopInv
  <2>3. \A i \in 0 .. MaxLen : i < position => i \in settled \/ i = msg
    BY <1>2 DEF Inv, LoopInv
  <2>4. \A i \in 0 .. MaxLen :
          i < position => i \in settled' \/ (pc' = "idor" /\ i = msg)
    BY <1>2, <2>3
  <2>5. pc' = "commit" => msg \in whole'
    BY <1>2
  <2>6. LastCommittedIsWhole'
    BY <1>2 DEF Inv, LoopInv, LastCommittedIsWhole
  <2>. QED  BY <1>1, <1>2, <2>1, <2>2, <2>4, <2>5, <2>6 DEF LoopInv, InHand
<1>. QED  BY <1>1, <1>3, <1>4, <1>5 DEF Inv

\* Only a message with both scans is committed.
LEMMA CommitStep ==
  ASSUME Inv, CommitMessages
  PROVE  Inv'
<1>1. StoredTypeOK' /\ ProducerInv' /\ PayloadInv' /\ topics' = topics
      /\ payload' = payload
  BY DashboardKept DEF CommitMessages
<1>2. /\ pc = "commit"
      /\ committed' \in {committed, msg + 1}
      /\ pc' = "fetch"
      /\ UNCHANGED <<position, msg, rbacParams, idorParams, starts, settled,
                     whole>>
  BY DEF CommitMessages, CommitOffset
<1>3. /\ position <= Len(topics[ScanTopic])
      /\ committed <= position
      /\ position = msg + 1
      /\ msg \in whole
  BY <1>2 DEF Inv, LoopInv, InHand
<1>4. \A i \in 0 .. MaxLen : i < position => i \in settled
  BY <1>2 DEF Inv, LoopInv
<1>5. committed' \in {committed, position}
  BY <1>2, <1>3
<1>6. EngineTypeOK'
  BY <1>2, <1>5 DEF Inv, EngineTypeOK
<1>7. ParamsInv'
  BY <1>2 DEF ParamsInv
<1>8. LastCommittedIsWhole'
  <2>1. CASE committed' = committed
    BY <1>2, <2>1 DEF Inv, LoopInv, LastCommittedIsWhole
  <2>2. CASE committed' = msg + 1
    <3>1. committed' - 1 = msg
      BY <2>2, LoopTypes
    <3>. QED  BY <1>2, <1>3, <3>1 DEF LastCommittedIsWhole
  <2>. QED  BY <1>2, <2>1, <2>2
<1>9. \A i \in 0 .. MaxLen : i < committed' => i \in settled
  BY <1>4, <1>5 DEF Inv, LoopInv
<1>10. committed' <= position
  BY <1>3, <1>5, LoopTypes
<1>11. LoopInv'
  BY <1>1, <1>2, <1>3, <1>4, <1>8, <1>9, <1>10 DEF LoopInv, InHand
<1>. QED  BY <1>1, <1>6, <1>7, <1>11 DEF Inv
-------------------------------------------------------------------------------
\* Nothing has been sent or fetched.
LEMMA InitEstablishesInv == Init => Inv
<1>. SUFFICES ASSUME Init PROVE Inv
  OBVIOUS
<1>. USE ScanAssumption, LengthAssumption DEF Init, ProducerInit
<1>1. ProducerInv
  <2>1. \A c \in Call : callPc[c] = "new"
    OBVIOUS
  <2>2. "new" \notin Active /\ "new" \notin Using /\ "new" # "raised"
    BY DEF Active, Connecting, Using
  <2>3. \A t \in Topic : topics[t] = << >>
    OBVIOUS
  <2>4. \A t \in Topic : Len(topics[t]) <= MaxLen
    BY <2>3
  <2>5. ProducerTypeOK
    <3>1. << >> \in Seq(Call)
      OBVIOUS
    <3>2. topics \in [Topic -> Seq(Call)]
      BY <3>1
    <3>3. callPc \in [Call -> {"new"} \cup Active \cup Over]
      OBVIOUS
    <3>. QED  BY <3>2, <3>3 DEF ProducerTypeOK
  <2>6. FailureHasCause
    BY <2>1, <2>2 DEF FailureHasCause
  <2>. QED  BY <2>1, <2>2, <2>4, <2>5, <2>6 DEF ProducerInv
<1>2. StoredTypeOK
  BY DEF StoredTypeOK
<1>3. EngineTypeOK
  BY DEF EngineTypeOK
<1>4. PayloadInv /\ ParamsInv
  BY DEF PayloadInv, ParamsInv
<1>5. LoopInv
  BY DEF LoopInv, InHand, LastCommittedIsWhole
<1>. QED  BY <1>1, <1>2, <1>3, <1>4, <1>5 DEF Inv

\* Every step of the dashboard and of the engine keeps the invariant.
LEMMA NextKeepsInv == Inv /\ [Next]_vars => Inv'
<1>. SUFFICES ASSUME Inv, [Next]_vars PROVE Inv'
  OBVIOUS
<1>1. CASE \E form \in Form : upsertLearningScanSettings(form)
  BY <1>1, DashboardStep
<1>2. ASSUME NEW c \in Call, RunLearningProcess(c)
      PROVE  Inv'
  BY <1>2, DashboardStep
<1>3. ASSUME NEW c \in Call,
             produceScanRequest(c) \/ produceOther(c) \/ GoOn(c)
      PROVE  Inv'
  <2>1. Connect(c) \/ Produce(c)
    BY <1>3 DEF produceScanRequest, produceOther, GoOn
  <2>2. Connect(c) /\ TopicOf[c] = ScanTopic => payload[c] # NoRow
    <3>1. Produce(c) => callPc[c] # "new"
      BY DEF Produce, Connected, ConnectFails, Send, SendRefused, SendSucceeds,
             SendFails, Disconnect, Disconnected, DisconnectFails
    <3>2. Connect(c) => callPc[c] = "new"
      BY DEF Connect
    <3>. QED  BY <1>3, <3>1, <3>2 DEF produceScanRequest, produceOther, GoOn
  <2>3. UNCHANGED <<payload, settings, engine>>
    BY <1>3 DEF produceScanRequest, produceOther, GoOn
  <2>. QED  BY <2>1, <2>2, <2>3, CallStep
<1>4. CASE StartEngine \/ StopEngine
  BY <1>4, StartStopStep
<1>5. CASE Run
  BY <1>5, FetchStep, ScanStep, CommitStep DEF Run
<1>6. CASE UNCHANGED vars
  <2>1. UNCHANGED <<producer, payload, settings, engine>>
    BY <1>6 DEF vars
  <2>2. StoredTypeOK' /\ ProducerInv' /\ PayloadInv' /\ topics' = topics
        /\ payload' = payload
    BY <2>1, DashboardKept DEF dashboard
  <2>3. EngineTypeOK' /\ ParamsInv' /\ LoopInv'
    BY <2>1, <2>2
    DEF Inv, EngineTypeOK, ParamsInv, LoopInv, InHand, LastCommittedIsWhole,
        engine
  <2>. QED  BY <2>2, <2>3 DEF Inv
<1>. QED  BY <1>1, <1>2, <1>3, <1>4, <1>5, <1>6 DEF Next

\* The strengthened invariant.
THEOREM Invariance == Spec => []Inv
BY InitEstablishesInv, NextKeepsInv, PTL DEF Spec

\* The types of the producer, the settings and the consumer.
THEOREM TypeCorrectness == Spec => []TypeOK
<1>1. Inv => TypeOK
  BY DEF Inv, ProducerInv, StoredTypeOK, EngineTypeOK, TypeOK
<1>. QED  BY <1>1, Invariance, PTL

\* A call of the shared producer fails only with another or by a fault, and
\* leaves nothing connected.
THEOREM SharedProducerIsSound == Spec => []ProducerIsShared
<1>1. Inv => ProducerIsShared
  <2>1. \A c \in Call : callPc[c] \in Using => callPc[c] \in Active
    BY DEF Active
  <2>. QED  BY <2>1 DEF Inv, ProducerInv, ProducerIsShared, QuiescentClosed
<1>. QED  BY <1>1, Invariance, PTL

\* Both scans run with the settings their call has found saved.
THEOREM ParamsAreSaved == Spec => []ScanParamsAreSaved
<1>1. Inv => ScanParamsAreSaved
  <2>. SUFFICES ASSUME Inv, pc \in {"rbac", "idor"}
                PROVE  /\ InBounds(payload[topics[ScanTopic][msg + 1]])
                       /\ rbacParams =
                            Only(RbacKey, payload[topics[ScanTopic][msg + 1]])
                       /\ idorParams =
                            Only(IdorKey, payload[topics[ScanTopic][msg + 1]])
    BY DEF ScanParamsAreSaved
  <2>1. msg + 1 \in 1 .. Len(topics[ScanTopic])
    BY MessageInHand DEF Inv
  <2>. DEFINE d == topics[ScanTopic][msg + 1]
  <2>2. d \in Call /\ TopicOf[d] = ScanTopic /\ callPc[d] # "new"
    BY <2>1, ScanAssumption DEF Inv, ProducerInv, ProducerTypeOK, PayloadInv
  <2>3. InBounds(payload[d])
    BY <2>2 DEF Inv, PayloadInv
  <2>. QED  BY <2>3 DEF Inv, ParamsInv
<1>. QED  BY <1>1, Invariance, PTL

\* The group resumes behind a message with both scans.
THEOREM CommittedIsWhole == Spec => []LastCommittedIsWhole
<1>1. Inv => LastCommittedIsWhole
  BY DEF Inv, LoopInv
<1>. QED  BY <1>1, Invariance, PTL

\* The scan consumer implements the contract of its consumer group: a step
\* settles the message in hand, moves the committed offset past settled
\* messages, or is none of the contract's.
THEOREM Refinement == Spec => KeepsContract
<1>. DEFINE done == {<<0, i>> : i \in settled}
            offset == [p \in {0} |-> committed]
<1>1. Init => Contract!Init
  BY DEF Init, Contract!Init
<1>2. ASSUME Inv, [Next]_vars
      PROVE  [Contract!Next]_<<done, offset>>
  <2>1. ASSUME settled' = settled \cup {msg}, UNCHANGED committed,
               pc \in {"rbac", "idor"}
        PROVE  Contract!Next
    <3>1. msg + 1 \in 1 .. Len(topics[ScanTopic])
      BY <1>2, <2>1, MessageInHand DEF Inv
    <3>2. msg \in 0 .. MaxLen - 1
      BY <1>2, <3>1, LoopTypes
    <3>3. <<0, msg>> \in Contract!Message
      BY <3>2 DEF Contract!Message
    <3>4. done' = done \cup {<<0, msg>>}
      BY <2>1
    <3>5. UNCHANGED offset
      BY <2>1
    <3>6. PICK m \in Contract!Message : m = <<0, msg>>
      BY <3>3
    <3>7. Contract!Settle(m)
      BY <3>4, <3>5, <3>6 DEF Contract!Settle
    <3>. QED  BY <3>7 DEF Contract!Next
  <2>2. CASE RbacScanFails
    <3>1. settled' = settled \cup {msg} /\ UNCHANGED committed /\ pc = "rbac"
      BY <2>2 DEF RbacScanFails, Continue
    <3>. QED  BY <2>1, <3>1
  <2>3. CASE IdorScan \/ IdorScanFails
    <3>1. settled' = settled \cup {msg} /\ UNCHANGED committed /\ pc = "idor"
      BY <2>3 DEF IdorScan, IdorScanFails
    <3>. QED  BY <2>1, <3>1
  <2>4. CASE CommitMessages
    <3>1. /\ pc = "commit"
          /\ committed' \in {committed, msg + 1}
          /\ UNCHANGED settled
      BY <2>4 DEF CommitMessages, CommitOffset
    <3>2. CASE committed' = committed
      BY <3>1, <3>2
    <3>3. CASE committed' = msg + 1
      <4>1. /\ position = msg + 1
            /\ committed <= msg
            /\ position <= Len(topics[ScanTopic])
            /\ \A i \in 0 .. MaxLen : i < position => i \in settled
        BY <1>2, <3>1 DEF Inv, LoopInv, InHand
      <4>2. msg + 1 \in 1 .. MaxLen /\ msg + 1 > committed
        BY <1>2, <4>1, LoopTypes
      <4>3. \A i \in 0 .. msg : i \in settled
        BY <1>2, <4>1, <4>2, LoopTypes
      <4>4. \A i \in 0 .. (msg + 1) - 1 : <<0, i>> \in done
        BY <1>2, <4>3, LoopTypes
      <4>5. offset' = [offset EXCEPT ![0] = msg + 1] /\ UNCHANGED done
        BY <3>1, <3>3
      <4>6. msg + 1 > offset[0]
        BY <4>2
      <4>7. Contract!Advance(0, msg + 1)
        BY <4>4, <4>5, <4>6 DEF Contract!Advance
      <4>. QED  BY <4>2, <4>7 DEF Contract!Next
    <3>. QED  BY <3>1, <3>2, <3>3
  <2>5. CASE UNCHANGED <<settled, committed>>
    BY <2>5
  <2>6. \/ RbacScanFails \/ IdorScan \/ IdorScanFails \/ CommitMessages
        \/ UNCHANGED <<settled, committed>>
    BY <1>2 DEF Next, Run, upsertLearningScanSettings, RunLearningProcess,
                produceScanRequest, produceOther, GoOn, StartEngine,
                StopEngine, FetchMessage, RbacScan, vars, engine
  <2>. QED  BY <2>2, <2>3, <2>4, <2>5, <2>6
<1>. QED  BY <1>1, <1>2, Invariance, PTL DEF Spec, KeepsContract, Contract!Spec
===============================================================================
