---------------------------- MODULE Mixer_proofs ----------------------------
(***************************************************************************)
(* Whatever the number of callers and of sounds, speeches share a stream   *)
(* that nothing else plays on, a sound is not cut short by another, and    *)
(* the mixing goroutine sends on done to a goroutine that waits for it.    *)
(*                                                                         *)
(* None of the three is inductive: they speak of the streams, and a stream *)
(* is what a call made of it.  So the invariant is about the calls too: a  *)
(* call that is about to place a sound holds a number if and only if its   *)
(* sound is a file (CallRight), numbers are given once (NumbersGiven), and *)
(* only stream 0 has somebody waiting (WaitsForSpeech).                    *)
(***************************************************************************)
EXTENDS Mixer, TLAPS

\* What a call is about is settled by the place it has got to.
CallRight(c) ==
    /\ At(c, "lookup") => call[c].kind = "play" /\ call[c].sound \in Sounds
    /\ At(c, "tts") => call[c].sound \in Texts
    /\ At(c, "read") => call[c].sound \in Sounds /\ (call[c].kind # "play" => call[c].sound \in Texts)
    /\ At(c, "play") => call[c].kind = "play" /\ call[c].sound \in Sounds
    /\ At(c, "place") => (call[c].sound \in Files <=> call[c].stream # SPEECH_STREAM_ID)
    /\ At(c, "place") /\ call[c].kind # "play" => call[c].sound \notin Files
    /\ ~At(c, "idle") /\ ~At(c, "place") => call[c].stream = SPEECH_STREAM_ID

\* The call holds a stream number, and nothing is on the stream yet.
Numbered(c) == At(c, "place") /\ call[c].stream # SPEECH_STREAM_ID

\* A number has one stream, or one call that will make it.
NumbersGiven ==
    /\ \A sid \in DOMAIN streams : sid < nextStreamID
    /\ \A c \in Calls : Numbered(c) => call[c].stream \notin DOMAIN streams
                                       /\ call[c].stream < nextStreamID
    /\ \A c, d \in Calls : Numbered(c) /\ Numbered(d) /\ c # d => call[c].stream # call[d].stream

WaitsForSpeech ==
    \A sid \in DOMAIN streams : streams[sid].done # "nobody" => sid = SPEECH_STREAM_ID

DeadEnded == \A sid \in dead : LastBlock(streams[sid])

IInv ==
    /\ TypeOK
    /\ \A c \in Calls : CallRight(c)
    /\ NumbersGiven
    /\ SpeechNotMixed
    /\ WaitsForSpeech /\ NotifiedWaits
    /\ DeadEnded
-----------------------------------------------------------------------------
\* A call that has got somewhere is a call.
LEMMA CallType ==
    ASSUME TypeOK, NEW c \in Calls, ~At(c, "idle")
    PROVE  /\ call[c] \in [at : Places, kind : Kinds, sound : Sounds \cup {NilSound},
                           stream : 0 .. MaxPlays]
           /\ call[c].kind = "sync" => c = Loop
<1>1. call[c] # Idle
  BY DEF At, Idle
<1> QED
  BY <1>1 DEF TypeOK

\* Types hold of the calls when one of them has changed.
LEMMA OneCallType ==
    ASSUME TypeOK, NEW c \in Calls, NEW e,
           e = Idle \/ /\ e \in [at : Places, kind : Kinds, sound : Sounds \cup {NilSound},
                                 stream : 0 .. MaxPlays]
                       /\ e.kind = "sync" => c = Loop,
           call' = [call EXCEPT ![c] = e]
    PROVE  /\ call' \in [Calls -> {Idle} \cup
                [at : Places, kind : Kinds, sound : Sounds \cup {NilSound}, stream : 0 .. MaxPlays]]
           /\ \A d \in Calls : call'[d] # Idle /\ call'[d].kind = "sync" => d = Loop
BY DEF TypeOK

\* What a caller does to its own call, and to nothing that is mixed.
LEMMA CallerType ==
    ASSUME TypeOK, NEW c \in Calls, CallRight(c),
           Caller(c) \/ LoadFile(c) \/ PlayFile(c)
    PROVE  TypeOK'
<1> USE MixerAssumption
<1>1. ASSUME NEW at \in Places, NEW kind \in Kinds, NEW s \in Sounds, Ask(c, at, kind, s),
             kind = "sync" => c = Loop
      PROVE  TypeOK'
  BY <1>1, OneCallType DEF Ask, TypeOK, library, mixerVars
<1>2. CASE PlaySound(c) \/ LoadAndPlaySound(c) \/ Speak(c)
  <2>1. loaded \subseteq Sounds
    BY DEF TypeOK, Sounds
  <2> QED
    BY <1>1, <1>2, <2>1 DEF PlaySound, LoadAndPlaySound, Speak, Places, Kinds, Sounds
<1>3. ASSUME NEW place \in Places, ~At(c, "idle"), Move(c, place),
             loaded' \subseteq Files, cached' \subseteq Texts
      PROVE  TypeOK'
  BY <1>3, CallType, OneCallType DEF Move, TypeOK, mixerVars
<1>4. ASSUME Return(c), UNCHANGED library
      PROVE  TypeOK'
  BY <1>4, OneCallType DEF Return, TypeOK, mixerVars, library
<1>5. CASE Load(c)
  BY <1>3, <1>4, <1>5
  DEF Load, LookupFile, LookupFails, LookupSpeech, LoadSpeechFails, Places, At, TypeOK, library
<1>6. CASE TtsApi(c)
  <2>1. cached' \subseteq Texts
    BY <1>6 DEF TtsApi, CallRight, TypeOK
  <2> QED
    BY <1>3, <1>6, <2>1 DEF TtsApi, Places, At, TypeOK
<1>7. CASE SpeakFails(c)
  <2>1. ~At(c, "idle")
    BY <1>7 DEF SpeakFails, At
  <2>2. [call[c] EXCEPT !.at = "place", !.sound = NilSound] \in
          [at : Places, kind : Kinds, sound : Sounds \cup {NilSound}, stream : 0 .. MaxPlays]
    BY <2>1, CallType DEF Places
  <2> QED
    BY <1>7, <2>1, <2>2, CallType, OneCallType DEF SpeakFails, TypeOK, library, mixerVars
<1>8. CASE PlayMuted(c) \/ PlaySpeech(c)
  BY <1>3, <1>4, <1>8 DEF PlayMuted, PlaySpeech, Places, At, TypeOK, library
<1>9. ASSUME NEW d \in Calls, LookupRaces(c, d)
      PROVE  TypeOK'
  BY <1>9 DEF LookupRaces, TypeOK, library, mixerVars
<1>10. CASE LoadFile(c)
  <2>1. loaded' \subseteq Files /\ cached' \subseteq Texts
    BY <1>10 DEF LoadFile, TypeOK
  <2> QED
    BY <1>3, <1>10, <2>1 DEF LoadFile, Places, At
<1>11. CASE PlayFile(c)
  <2>1. ~At(c, "idle")
    BY <1>11 DEF PlayFile, At
  <2>2. nextStreamID \in 0 .. MaxPlays /\ nextStreamID' \in 1 .. MaxPlays + 1
    BY <1>11 DEF PlayFile, TypeOK
  <2>3. [call[c] EXCEPT !.at = "place", !.stream = nextStreamID] \in
          [at : Places, kind : Kinds, sound : Sounds \cup {NilSound}, stream : 0 .. MaxPlays]
    BY <2>1, <2>2, CallType DEF Places
  <2> QED
    BY <1>11, <2>1, <2>2, <2>3, CallType, OneCallType DEF PlayFile, TypeOK, library, mixerVars
<1> QED
  BY <1>2, <1>5, <1>6, <1>7, <1>8, <1>9, <1>10, <1>11 DEF Caller

LEMMA PlayOnStreamType ==
    ASSUME TypeOK, NEW c \in Calls, PlayOnStream(c)
    PROVE  TypeOK'
<1>1. /\ call[c] \in [at : Places, kind : Kinds, sound : Sounds \cup {NilSound}, stream : 0 .. MaxPlays]
      /\ call[c].kind = "sync" => c = Loop
  BY CallType DEF PlayOnStream, At
<1>2. Stream(c) \in [sound : Sounds \cup {NilSound}, offset : Nat, done : Calls \cup {"nobody"}]
  BY <1>1 DEF Stream
<1>3. DOMAIN streams' = DOMAIN streams \cup {call[c].stream}
  BY DEF PlayOnStream
<1>4. DOMAIN streams' \subseteq 0 .. MaxPlays /\ dead \subseteq DOMAIN streams'
  BY <1>1, <1>3 DEF TypeOK
<1>5. ASSUME NEW sid \in DOMAIN streams'
      PROVE  streams'[sid] \in
               [sound : Sounds \cup {NilSound}, offset : Nat, done : Calls \cup {"nobody"}]
  BY <1>2, <1>5 DEF PlayOnStream, TypeOK
<1> DEFINE e == IF call[c].kind = "sync" THEN [call[c] EXCEPT !.at = "wait"] ELSE Idle
<1>6. call' = [call EXCEPT ![c] = e]
  BY DEF PlayOnStream
<1>7. e = Idle \/ /\ e \in [at : Places, kind : Kinds, sound : Sounds \cup {NilSound},
                             stream : 0 .. MaxPlays]
                  /\ e.kind = "sync" => c = Loop
  BY <1>1 DEF Places
<1> HIDE DEF e
<1>8. /\ call' \in [Calls -> {Idle} \cup
            [at : Places, kind : Kinds, sound : Sounds \cup {NilSound}, stream : 0 .. MaxPlays]]
      /\ \A d \in Calls : call'[d] # Idle /\ call'[d].kind = "sync" => d = Loop
  BY <1>6, <1>7, OneCallType
<1>9. UNCHANGED <<nextStreamID, loaded, cached, muted, mixing, dead, up>>
  BY DEF PlayOnStream, library, mixerVars
<1> QED
  BY <1>4, <1>5, <1>8, <1>9 DEF TypeOK

\* Whoever is told that a stream ended is idle again.
LEMMA NotifyType ==
    ASSUME TypeOK, NEW sid \in DOMAIN streams, Notify(sid)
    PROVE  /\ call' \in [Calls -> {Idle} \cup
                [at : Places, kind : Kinds, sound : Sounds \cup {NilSound}, stream : 0 .. MaxPlays]]
           /\ \A d \in Calls : call'[d] # Idle /\ call'[d].kind = "sync" => d = Loop
           /\ \A d \in Calls : call'[d] = call[d] \/ (call'[d] = Idle /\ streams[sid].done = d)
BY OneCallType DEF Notify, TypeOK

LEMMA TypeStep ==
    ASSUME TypeOK, \A c \in Calls : CallRight(c), [Next]_vars
    PROVE  TypeOK'
<1> USE MixerAssumption
<1>1. CASE Mix
  <2>1. DOMAIN streams' = DOMAIN streams /\ dead' \subseteq DOMAIN streams /\ mixing'
    BY <1>1 DEF Mix
  <2>2. ASSUME NEW sid \in DOMAIN streams
        PROVE  streams'[sid] \in
                 [sound : Sounds \cup {NilSound}, offset : Nat, done : Calls \cup {"nobody"}]
    <3>1. streams[sid] \in
            [sound : Sounds \cup {NilSound}, offset : Nat, done : Calls \cup {"nobody"}]
      BY DEF TypeOK
    <3>2. streams'[sid] = streams[sid] \/ streams'[sid] = [streams[sid] EXCEPT !.offset = @ + BufSize]
      BY <1>1 DEF Mix
    <3> QED
      BY <3>1, <3>2
  <2> QED
    BY <1>1, <2>1, <2>2 DEF Mix, TypeOK, library
<1>2. CASE MixPanics \/ Write
  BY <1>2 DEF MixPanics, Write, TypeOK, library, mixerVars
<1>3. ASSUME NEW sid \in dead, EndStream(sid)
      PROVE  TypeOK'
  <2>1. sid \in DOMAIN streams /\ Notify(sid)
    BY <1>3 DEF EndStream, TypeOK
  <2>2. /\ DOMAIN streams' = DOMAIN streams \ {sid}
        /\ \A i \in DOMAIN streams' : streams'[i] = streams[i]
    BY <1>3 DEF EndStream, Restrict
  <2>3. DOMAIN streams' \subseteq 0 .. MaxPlays /\ dead' \subseteq DOMAIN streams'
    BY <1>3, <2>2 DEF EndStream, TypeOK
  <2> QED
    BY <1>3, <2>1, <2>2, <2>3, NotifyType DEF EndStream, TypeOK, library
<1>4. CASE Mute
  BY <1>4 DEF Mute, TypeOK, library, mixerVars
<1>5. CASE SpeakSync
  BY <1>5, OneCallType DEF SpeakSync, Ask, TypeOK, library, mixerVars, Places, Kinds, Sounds
<1>6. ASSUME NEW c \in Calls, TakesLock(c) \/ Caller(c)
      PROVE  TypeOK'
  BY <1>6, CallerType, PlayOnStreamType DEF TakesLock
<1>7. CASE UNCHANGED vars
  BY <1>7 DEF vars, TypeOK, library, mixerVars
<1> QED
  BY <1>1, <1>2, <1>3, <1>4, <1>5, <1>6, <1>7 DEF Next, Mixing

-----------------------------------------------------------------------------
\* A call that goes on says what CallRight says of its new place.
LEMMA CallRightStep ==
    ASSUME TypeOK, \A c \in Calls : CallRight(c), [Next]_vars
    PROVE  \A c \in Calls : CallRight(c)'
<1> USE MixerAssumption DEF At, SPEECH_STREAM_ID
<1>1. ASSUME NEW c \in Calls, UNCHANGED call \/ \E e : call' = [call EXCEPT ![c] = e],
             CallRight(c)'
      PROVE  \A d \in Calls : CallRight(d)'
  BY <1>1 DEF CallRight, TypeOK
<1>2. ASSUME NEW c \in Calls, call' = [call EXCEPT ![c] = Idle]
      PROVE  \A d \in Calls : CallRight(d)'
  BY <1>1, <1>2 DEF CallRight, Idle, TypeOK
<1>3. ASSUME UNCHANGED call
      PROVE  \A d \in Calls : CallRight(d)'
  BY <1>3 DEF CallRight
<1>4. ASSUME NEW c \in Calls, NEW place \in Places, call[c] # Idle, CallRight(c),
             call' = [call EXCEPT ![c].at = place]
      PROVE  /\ call'[c].at = place /\ call'[c].kind = call[c].kind
             /\ call'[c].sound = call[c].sound /\ call'[c].stream = call[c].stream
  BY <1>4 DEF TypeOK
<1>5. ASSUME NEW c \in Calls, PlaySound(c) \/ LoadAndPlaySound(c) \/ Speak(c)
      PROVE  \A d \in Calls : CallRight(d)'
  <2>1. CallRight(c)'
    BY <1>5 DEF PlaySound, LoadAndPlaySound, Speak, Ask, CallRight, TypeOK, Sounds
  <2> QED
    BY <1>1, <1>5, <2>1 DEF PlaySound, LoadAndPlaySound, Speak, Ask
<1>6. CASE SpeakSync
  <2>1. CallRight(Loop)'
    BY <1>6 DEF SpeakSync, Ask, CallRight, TypeOK, Sounds
  <2> QED
    BY <1>1, <1>6, <2>1 DEF SpeakSync, Ask
<1>7. ASSUME NEW c \in Calls, LookupFile(c) \/ LookupSpeech(c) \/ TtsApi(c) \/ LoadFile(c) \/ PlaySpeech(c)
      PROVE  \A d \in Calls : CallRight(d)'
  <2>1. CallRight(c)'
    BY <1>7
    DEF LookupFile, LookupSpeech, TtsApi, LoadFile, PlaySpeech, Move, CallRight, TypeOK, Sounds, Idle
  <2> QED
    BY <1>1, <1>7, <2>1 DEF LookupFile, LookupSpeech, TtsApi, LoadFile, PlaySpeech, Move
<1>8. ASSUME NEW c \in Calls, SpeakFails(c)
      PROVE  \A d \in Calls : CallRight(d)'
  <2>1. CallRight(c)'
    BY <1>8 DEF SpeakFails, CallRight, TypeOK, Sounds, Idle
  <2> QED
    BY <1>1, <1>8, <2>1 DEF SpeakFails
<1>9. ASSUME NEW c \in Calls, PlayFile(c)
      PROVE  \A d \in Calls : CallRight(d)'
  <2>1. CallRight(c)'
    BY <1>9 DEF PlayFile, CallRight, TypeOK, Sounds, Idle, SPEECH_STREAM_ID
  <2> QED
    BY <1>1, <1>9, <2>1 DEF PlayFile
<1>10. ASSUME NEW c \in Calls, PlayOnStream(c)
       PROVE  \A d \in Calls : CallRight(d)'
  <2>1. CallRight(c)'
    BY <1>10 DEF PlayOnStream, CallRight, TypeOK, Idle
  <2> QED
    BY <1>1, <1>10, <2>1 DEF PlayOnStream
<1>11. ASSUME NEW c \in Calls, LookupFails(c) \/ LoadSpeechFails(c) \/ PlayMuted(c)
       PROVE  \A d \in Calls : CallRight(d)'
  BY <1>2, <1>11 DEF LookupFails, LoadSpeechFails, PlayMuted, Return
<1>12. ASSUME NEW sid \in dead, EndStream(sid)
       PROVE  \A d \in Calls : CallRight(d)'
  <2>1. CASE streams[sid].done = "nobody"
    BY <1>3, <1>12, <2>1 DEF EndStream, Notify
  <2>2. CASE streams[sid].done # "nobody"
    BY <1>2, <1>12, <2>2 DEF EndStream, Notify, TypeOK
  <2> QED
    BY <2>1, <2>2
<1>13. CASE Mix \/ MixPanics \/ Write \/ Mute \/ UNCHANGED vars
  BY <1>3, <1>13 DEF Mix, MixPanics, Write, Mute, vars
<1>14. ASSUME NEW c \in Calls, NEW d \in Calls, LookupRaces(c, d)
       PROVE  \A b \in Calls : CallRight(b)'
  BY <1>3, <1>14 DEF LookupRaces
<1> QED
  BY <1>5, <1>6, <1>7, <1>8, <1>9, <1>10, <1>11, <1>12, <1>13, <1>14
  DEF Next, Mixing, TakesLock, Caller, Load

-----------------------------------------------------------------------------
\* The steps of a caller that neither take a number nor use one.
OwnStep(c) ==
    \/ PlaySound(c) \/ LoadAndPlaySound(c) \/ Speak(c) \/ SpeakSync
    \/ Load(c) \/ TtsApi(c) \/ SpeakFails(c) \/ LoadFile(c) \/ PlayMuted(c) \/ PlaySpeech(c)

\* They leave the streams alone, and the call has no number afterwards.
LEMMA OwnStepEffect ==
    ASSUME TypeOK, NEW c \in Calls, CallRight(c), OwnStep(c)
    PROVE  /\ UNCHANGED <<streams, nextStreamID, mixing, dead>>
           /\ \E b \in Calls : /\ \A d \in Calls \ {b} : call'[d] = call[d]
                               /\ ~Numbered(b)' /\ ~At(b, "wait")
<1> USE MixerAssumption DEF At, SPEECH_STREAM_ID, Numbered, mixerVars
<1>1. ASSUME NEW b \in Calls, NEW at \in Places, NEW kind, NEW s, Ask(b, at, kind, s)
      PROVE  /\ UNCHANGED <<streams, nextStreamID, mixing, dead>>
             /\ \A d \in Calls \ {b} : call'[d] = call[d]
             /\ ~Numbered(b)' /\ ~At(b, "wait")
  BY <1>1 DEF Ask, TypeOK, Idle
<1>2. CASE PlaySound(c) \/ LoadAndPlaySound(c) \/ Speak(c) \/ SpeakSync
  BY <1>1, <1>2 DEF PlaySound, LoadAndPlaySound, Speak, SpeakSync, Places
<1>3. CASE LookupFile(c) \/ LookupSpeech(c) \/ TtsApi(c) \/ LoadFile(c) \/ PlaySpeech(c)
  <2>1. UNCHANGED <<streams, nextStreamID, mixing, dead>>
    BY <1>3 DEF LookupFile, LookupSpeech, TtsApi, LoadFile, PlaySpeech, Move
  <2>2. \A d \in Calls \ {c} : call'[d] = call[d]
    BY <1>3 DEF LookupFile, LookupSpeech, TtsApi, LoadFile, PlaySpeech, Move, TypeOK
  <2>3. call'[c].stream = 0 /\ ~At(c, "wait")
    BY <1>3
    DEF LookupFile, LookupSpeech, TtsApi, LoadFile, PlaySpeech, Move, TypeOK, CallRight, Idle
  <2> QED
    BY <2>1, <2>2, <2>3
<1>4. CASE SpeakFails(c)
  BY <1>4 DEF SpeakFails, TypeOK, CallRight, Idle
<1>5. CASE LookupFails(c) \/ LoadSpeechFails(c) \/ PlayMuted(c)
  BY <1>5 DEF LookupFails, LoadSpeechFails, PlayMuted, Return, TypeOK, Idle
<1> QED
  BY <1>2, <1>3, <1>4, <1>5 DEF OwnStep, Load

\* What a step does to the streams, as far as the calls are concerned.
LEMMA StepKinds ==
    ASSUME [Next]_vars
    PROVE  \/ UNCHANGED <<streams, nextStreamID, mixing, dead, call>>
           \/ \E c \in Calls : OwnStep(c) \/ PlayFile(c) \/ PlayOnStream(c)
           \/ Mix \/ Write \/ \E sid \in dead : EndStream(sid)
BY MixerAssumption
DEF Next, Mixing, TakesLock, Caller, OwnStep, MixPanics, Mute, LookupRaces, vars, mixerVars

LEMMA NumbersStep ==
    ASSUME TypeOK, \A c \in Calls : CallRight(c), NumbersGiven, [Next]_vars
    PROVE  NumbersGiven'
<1> USE MixerAssumption DEF At, SPEECH_STREAM_ID, Numbered
<1>1. ASSUME DOMAIN streams' \subseteq DOMAIN streams, UNCHANGED nextStreamID,
             \A d \in Calls : Numbered(d)' => call'[d] = call[d]
      PROVE  NumbersGiven'
  BY <1>1 DEF NumbersGiven
<1>2. ASSUME NEW c \in Calls, OwnStep(c)
      PROVE  NumbersGiven'
  BY <1>1, <1>2, OwnStepEffect
<1>3. ASSUME NEW c \in Calls, PlayFile(c)
      PROVE  NumbersGiven'
  <2>1. /\ UNCHANGED streams /\ nextStreamID' = nextStreamID + 1
        /\ call'[c].stream = nextStreamID
        /\ \A d \in Calls \ {c} : call'[d] = call[d]
    BY <1>3, CallType DEF PlayFile, TypeOK
  <2>2. nextStreamID \in Nat /\ DOMAIN streams \subseteq Nat
    BY DEF TypeOK
  <2>3. ASSUME NEW d \in Calls, Numbered(d)
        PROVE  call[d].stream \in Nat
    BY <2>3, CallType
  <2> QED
    BY <2>1, <2>2, <2>3 DEF NumbersGiven
<1>4. ASSUME NEW c \in Calls, PlayOnStream(c)
      PROVE  NumbersGiven'
  <2>1. /\ DOMAIN streams' = DOMAIN streams \cup {call[c].stream}
        /\ \A d \in Calls \ {c} : call'[d] = call[d]
        /\ UNCHANGED nextStreamID /\ At(c, "place")
    BY <1>4 DEF PlayOnStream, TypeOK
  <2>2. ~Numbered(c)'
    BY <1>4, CallType DEF PlayOnStream, TypeOK, Idle
  <2>3. call[c].stream < nextStreamID
    BY <2>1 DEF NumbersGiven, TypeOK
  <2> QED
    BY <2>1, <2>2, <2>3 DEF NumbersGiven
<1>5. ASSUME NEW sid \in dead, EndStream(sid)
      PROVE  NumbersGiven'
  <2>1. DOMAIN streams' \subseteq DOMAIN streams /\ UNCHANGED nextStreamID
    BY <1>5 DEF EndStream, Restrict
  <2>2. \A d \in Calls : call'[d] = call[d] \/ call'[d] = Idle
    BY <1>5, NotifyType DEF EndStream, TypeOK
  <2> QED
    BY <1>1, <2>1, <2>2 DEF Idle
<1>6. CASE Mix \/ Write
  BY <1>1, <1>6 DEF Mix, Write
<1>7. CASE UNCHANGED <<streams, nextStreamID, mixing, dead, call>>
  BY <1>1, <1>7
<1> QED
  BY <1>2, <1>3, <1>4, <1>5, <1>6, <1>7, StepKinds

\* Streams that only move on, or end, stay what they were.
LEMMA StreamsEnd ==
    ASSUME DOMAIN streams' \subseteq DOMAIN streams,
           \A sid \in DOMAIN streams' : /\ streams'[sid].sound = streams[sid].sound
                                        /\ streams'[sid].done = streams[sid].done,
           SpeechNotMixed, WaitsForSpeech
    PROVE  SpeechNotMixed' /\ WaitsForSpeech'
BY DEF SpeechNotMixed, WaitsForSpeech, SPEECH_STREAM_ID

\* Mix moves the streams on that have another block.
LEMMA MixEffect ==
    ASSUME TypeOK, Mix
    PROVE  /\ DOMAIN streams' = DOMAIN streams
           /\ dead' = {sid \in DOMAIN streams : LastBlock(streams[sid])}
           /\ UNCHANGED call
           /\ \A sid \in dead' : streams'[sid] = streams[sid]
           /\ \A sid \in DOMAIN streams : /\ streams'[sid].sound = streams[sid].sound
                                          /\ streams'[sid].done = streams[sid].done
                                          /\ streams'[sid].offset >= streams[sid].offset
<1>1. ASSUME NEW sid \in DOMAIN streams
      PROVE  /\ streams'[sid].sound = streams[sid].sound
             /\ streams'[sid].done = streams[sid].done
             /\ streams'[sid].offset >= streams[sid].offset
  <2>1. streams[sid] \in
          [sound : Sounds \cup {NilSound}, offset : Nat, done : Calls \cup {"nobody"}]
    BY DEF TypeOK
  <2>2. streams'[sid] = streams[sid] \/ streams'[sid] = [streams[sid] EXCEPT !.offset = @ + BufSize]
    BY DEF Mix
  <2> QED
    BY <2>1, <2>2, MixerAssumption
<1> QED
  BY <1>1 DEF Mix

\* A stream that ends leaves the others alone, and only who waited for it goes on.
LEMMA EndEffect ==
    ASSUME TypeOK, NEW sid \in dead, EndStream(sid)
    PROVE  /\ sid \in DOMAIN streams
           /\ DOMAIN streams' = DOMAIN streams \ {sid}
           /\ \A i \in DOMAIN streams' : streams'[i] = streams[i]
           /\ dead' = dead \ {sid}
           /\ \A d \in Calls : call'[d] = call[d] \/ streams[sid].done = d
<1>1. sid \in DOMAIN streams
  BY DEF TypeOK
<1> QED
  BY <1>1, NotifyType DEF EndStream, Restrict

\* The stream a call makes: that of its number, or the one of speech.
LEMMA PlaceEffect ==
    ASSUME TypeOK, NEW c \in Calls, CallRight(c), NumbersGiven, PlayOnStream(c)
    PROVE  /\ DOMAIN streams' = DOMAIN streams \cup {call[c].stream}
           /\ \A i \in DOMAIN streams \ {SPEECH_STREAM_ID} :
                  i # call[c].stream /\ streams'[i] = streams[i]
           /\ \A i \in DOMAIN streams' \ {call[c].stream} :
                  i \in DOMAIN streams /\ streams'[i] = streams[i]
           /\ streams'[call[c].stream] = Stream(c)
           /\ call[c].sound \in Files <=> call[c].stream # SPEECH_STREAM_ID
           /\ Stream(c).done # "nobody" => /\ call[c].stream = SPEECH_STREAM_ID
                                           /\ Stream(c).done = c /\ At(c, "wait")'
           /\ \A d \in Calls \ {c} : call'[d] = call[d]
           /\ ~At(c, "wait") /\ dead' = dead /\ dead = {}
<1> USE DEF SPEECH_STREAM_ID
<1>1. At(c, "place") /\ ~At(c, "wait")
  BY DEF PlayOnStream, At
<1>2. /\ DOMAIN streams' = DOMAIN streams \cup {call[c].stream}
      /\ streams'[call[c].stream] = Stream(c)
      /\ \A i \in DOMAIN streams : i # call[c].stream => streams'[i] = streams[i]
  BY DEF PlayOnStream
<1>3. call[c].sound \in Files <=> call[c].stream # 0
  BY <1>1 DEF CallRight
<1>4. ASSUME NEW i \in DOMAIN streams \ {0}
      PROVE  i # call[c].stream
  BY <1>1, <1>4 DEF NumbersGiven, Numbered
<1>5. ASSUME Stream(c).done # "nobody"
      PROVE  call[c].stream = 0 /\ Stream(c).done = c /\ At(c, "wait")'
  <2>1. call[c].kind = "sync" /\ Stream(c).done = c
    BY <1>5 DEF Stream
  <2>2. call[c].stream = 0
    BY <1>1, <1>3, <2>1 DEF CallRight
  <2>3. call'[c] = [call[c] EXCEPT !.at = "wait"]
    BY <2>1 DEF PlayOnStream, TypeOK
  <2>4. At(c, "wait")'
    BY <1>1, <2>3, CallType DEF At
  <2> QED
    BY <2>1, <2>2, <2>4
<1>6. \A d \in Calls \ {c} : call'[d] = call[d]
  BY DEF PlayOnStream, TypeOK
<1>7. dead' = dead /\ dead = {}
  BY DEF PlayOnStream, TypeOK, mixerVars
<1> QED
  BY <1>1, <1>2, <1>3, <1>4, <1>5, <1>6, <1>7

LEMMA StreamsStep ==
    ASSUME IInv, [Next]_vars
    PROVE  SpeechNotMixed' /\ WaitsForSpeech' /\ NotifiedWaits' /\ DeadEnded'
<1> USE DEF SPEECH_STREAM_ID
<1> /\ TypeOK /\ NumbersGiven /\ SpeechNotMixed
    /\ WaitsForSpeech /\ NotifiedWaits /\ DeadEnded
    /\ \A c \in Calls : CallRight(c)
  BY DEF IInv
<1>1. ASSUME NEW c \in Calls, OwnStep(c)
      PROVE  SpeechNotMixed' /\ WaitsForSpeech' /\ NotifiedWaits' /\ DeadEnded'
  <2>1. PICK b \in Calls : /\ \A d \in Calls \ {b} : call'[d] = call[d]
                           /\ ~At(b, "wait")
    BY <1>1, OwnStepEffect
  <2>2. UNCHANGED <<streams, dead>>
    BY <1>1, OwnStepEffect
  <2>3. ASSUME NEW sid \in DOMAIN streams, streams[sid].done # "nobody"
        PROVE  call'[streams[sid].done].at = "wait"
    <3>1. streams[sid].done \in Calls /\ At(streams[sid].done, "wait")
      BY <2>3 DEF TypeOK, NotifiedWaits
    <3> QED
      BY <2>1, <3>1 DEF At
  <2> QED
    BY <2>2, <2>3 DEF SpeechNotMixed, WaitsForSpeech, NotifiedWaits, DeadEnded, At
<1>2. ASSUME NEW c \in Calls, PlayFile(c)
      PROVE  SpeechNotMixed' /\ WaitsForSpeech' /\ NotifiedWaits' /\ DeadEnded'
  <2>1. UNCHANGED <<streams, dead>> /\ ~At(c, "wait")
    BY <1>2 DEF PlayFile, At, mixerVars
  <2>2. \A d \in Calls \ {c} : call'[d] = call[d]
    BY <1>2 DEF PlayFile, TypeOK
  <2>3. ASSUME NEW sid \in DOMAIN streams, streams[sid].done # "nobody"
        PROVE  call'[streams[sid].done].at = "wait"
    <3>1. streams[sid].done \in Calls /\ At(streams[sid].done, "wait")
      BY <2>3 DEF TypeOK, NotifiedWaits
    <3> QED
      BY <2>1, <2>2, <3>1 DEF At
  <2> QED
    BY <2>1, <2>3 DEF SpeechNotMixed, WaitsForSpeech, NotifiedWaits, DeadEnded, At
<1>3. ASSUME NEW c \in Calls, PlayOnStream(c)
      PROVE  SpeechNotMixed' /\ WaitsForSpeech' /\ NotifiedWaits' /\ DeadEnded'
  <2> DEFINE new == call[c].stream
  <2>0. /\ streams'[new] = Stream(c) /\ Stream(c).sound = call[c].sound
        /\ call[c].sound \in Files <=> new # 0
        /\ Stream(c).done # "nobody" => new = 0 /\ Stream(c).done = c /\ At(c, "wait")'
        /\ \A i \in DOMAIN streams' \ {new} : i \in DOMAIN streams /\ streams'[i] = streams[i]
    BY <1>3, PlaceEffect DEF Stream
  <2> HIDE DEF new
  <2>1. SpeechNotMixed'
    BY <2>0 DEF SpeechNotMixed
  <2>2. WaitsForSpeech'
    BY <2>0 DEF WaitsForSpeech
  <2>3. ASSUME NEW sid \in DOMAIN streams', streams'[sid].done # "nobody"
        PROVE  call'[streams'[sid].done].at = "wait"
    <3>1. CASE sid = call[c].stream
      <4>1. streams'[sid] = Stream(c) /\ Stream(c).done # "nobody"
        BY <2>0, <2>3, <3>1 DEF new
      <4> QED
        BY <2>0, <4>1 DEF At
    <3>2. CASE sid # call[c].stream
      <4>1. sid \in DOMAIN streams /\ streams'[sid] = streams[sid]
        BY <1>3, <3>2, PlaceEffect
      <4>2. streams[sid].done \in Calls /\ At(streams[sid].done, "wait")
        BY <2>3, <4>1 DEF TypeOK, NotifiedWaits
      <4>3. streams[sid].done # c /\ \A d \in Calls \ {c} : call'[d] = call[d]
        BY <1>3, <4>2, PlaceEffect
      <4> QED
        BY <4>1, <4>2, <4>3 DEF At
    <3> QED
      BY <3>1, <3>2
  <2>4. DeadEnded'
    BY <1>3, PlaceEffect DEF DeadEnded
  <2> QED
    BY <2>1, <2>2, <2>3, <2>4 DEF NotifiedWaits, At
<1>4. CASE Mix
  <2>1. SpeechNotMixed' /\ WaitsForSpeech'
    BY <1>4, MixEffect, StreamsEnd
  <2>2. NotifiedWaits'
    BY <1>4, MixEffect DEF NotifiedWaits, At
  <2>3. DeadEnded'
    BY <1>4, MixEffect DEF DeadEnded
  <2> QED
    BY <2>1, <2>2, <2>3
<1>5. ASSUME NEW sid \in dead, EndStream(sid)
      PROVE  SpeechNotMixed' /\ WaitsForSpeech' /\ NotifiedWaits' /\ DeadEnded'
  <2>1. SpeechNotMixed' /\ WaitsForSpeech'
    BY <1>5, EndEffect, StreamsEnd
\* Whoever else is waited for is not the one that goes on: only stream 0 has any.
  <2>2. ASSUME NEW i \in DOMAIN streams', streams'[i].done # "nobody"
        PROVE  call'[streams'[i].done].at = "wait"
    <3>1. i \in DOMAIN streams /\ i # sid /\ streams'[i] = streams[i] /\ sid \in DOMAIN streams
      BY <1>5, EndEffect
    <3>2. streams[i].done \in Calls /\ At(streams[i].done, "wait") /\ i = 0
      BY <2>2, <3>1 DEF TypeOK, NotifiedWaits, WaitsForSpeech
    <3>3. streams[sid].done = "nobody"
      BY <3>1, <3>2 DEF WaitsForSpeech
    <3>4. UNCHANGED call
      BY <1>5, <3>3 DEF EndStream, Notify
    <3> QED
      BY <3>1, <3>2, <3>4 DEF At
  <2>3. DeadEnded'
    BY <1>5, EndEffect DEF DeadEnded, TypeOK
  <2> QED
    BY <2>1, <2>2, <2>3 DEF NotifiedWaits, At
<1>6. CASE Write \/ UNCHANGED <<streams, nextStreamID, mixing, dead, call>>
  <2>1. UNCHANGED <<streams, dead, call>>
    BY <1>6 DEF Write
  <2> QED
    BY <2>1 DEF SpeechNotMixed, WaitsForSpeech, NotifiedWaits, DeadEnded, At
<1> QED
  BY <1>1, <1>2, <1>3, <1>4, <1>5, <1>6, StepKinds

LEMMA InvStep == ASSUME IInv, [Next]_vars PROVE IInv'
BY TypeStep, CallRightStep, NumbersStep, StreamsStep DEF IInv

LEMMA InvInit == Init => IInv
<1> SUFFICES ASSUME Init PROVE IInv
  OBVIOUS
<1>1. TypeOK
  <2>1. DOMAIN streams = {} /\ dead = {}
    BY DEF Init
  <2>2. call \in [Calls -> {Idle}] /\ \A c \in Calls : call[c] = Idle
    BY DEF Init
  <2>3. call \in [Calls -> {Idle} \cup
            [at : Places, kind : Kinds, sound : Sounds \cup {NilSound}, stream : 0 .. MaxPlays]]
    BY <2>2
  <2>4. nextStreamID \in 1 .. MaxPlays + 1
    BY MixerAssumption DEF Init
  <2> QED
    BY <2>1, <2>2, <2>3, <2>4 DEF Init, TypeOK
<1>2. \A c \in Calls : CallRight(c)
  BY DEF Init, CallRight, At, Idle
<1>3. NumbersGiven /\ SpeechNotMixed /\ WaitsForSpeech /\ NotifiedWaits /\ DeadEnded
  BY DEF Init, NumbersGiven, Numbered, At, Idle, SpeechNotMixed, WaitsForSpeech, NotifiedWaits, DeadEnded
<1> QED
  BY <1>1, <1>2, <1>3 DEF IInv

LEMMA Invariance == Spec => []IInv
BY InvInit, InvStep, PTL DEF Spec

-----------------------------------------------------------------------------
\* Speech outputs are not mixed: whichever call asks for a speech, playOnStream
\* gets SPEECH_STREAM_ID for it, and for nothing else.
THEOREM SpeechNeverMixed == Spec => []SpeechNotMixed
<1>1. IInv => SpeechNotMixed
  BY DEF IInv
<1> QED
  BY <1>1, Invariance, PTL

\* The send on done, which is unbuffered and made with the lock held, finds its
\* receiver waiting: the mixing goroutine is not held up, and nobody behind it.
THEOREM DoneIsAwaited == Spec => []NotifiedWaits
<1>1. IInv => NotifiedWaits
  BY DEF IInv
<1> QED
  BY <1>1, Invariance, PTL

\* A numbered sound plays to its end: no call takes its stream or rewinds it.
THEOREM SoundsUncut == Spec => PlayReplacesNothing
<1> DEFINE Kept == \A sid \in DOMAIN streams \ {SPEECH_STREAM_ID} :
          IF sid \in DOMAIN streams'
          THEN streams'[sid].sound = streams[sid].sound /\ streams'[sid].offset >= streams[sid].offset
          ELSE LastBlock(streams[sid])
<1>1. ASSUME TypeOK, UNCHANGED streams
      PROVE  Kept
  BY <1>1 DEF TypeOK
<1>2. ASSUME IInv, [Next]_vars
      PROVE  Kept
  <2> /\ TypeOK /\ NumbersGiven /\ DeadEnded
      /\ \A c \in Calls : CallRight(c)
    BY <1>2 DEF IInv
  <2>1. ASSUME NEW c \in Calls, OwnStep(c) \/ PlayFile(c)
        PROVE  Kept
    BY <1>1, <2>1, OwnStepEffect DEF PlayFile
  <2>2. ASSUME NEW c \in Calls, PlayOnStream(c)
        PROVE  Kept
    <3>1. ASSUME NEW sid \in DOMAIN streams \ {SPEECH_STREAM_ID}
          PROVE  /\ sid \in DOMAIN streams' /\ streams'[sid] = streams[sid]
                 /\ streams[sid].offset \in Nat
      BY <2>2, PlaceEffect DEF TypeOK
    <3> QED
      BY <3>1
  <2>3. CASE Mix
    BY <2>3, MixEffect
  <2>4. ASSUME NEW sid \in dead, EndStream(sid)
        PROVE  Kept
    <3>1. LastBlock(streams[sid])
      BY <2>4 DEF DeadEnded
    <3>2. ASSUME NEW i \in DOMAIN streams, i # sid
          PROVE  /\ i \in DOMAIN streams' /\ streams'[i] = streams[i]
                 /\ streams[i].offset \in Nat
      BY <2>4, <3>2, EndEffect DEF TypeOK
    <3>3. sid \notin DOMAIN streams'
      BY <2>4, EndEffect
    <3> QED
      BY <3>1, <3>2, <3>3
  <2>5. CASE Write \/ UNCHANGED <<streams, nextStreamID, mixing, dead, call>>
    BY <1>1, <2>5 DEF Write
  <2> QED
    BY <1>2, <2>1, <2>2, <2>3, <2>4, <2>5, StepKinds
<1>3. ASSUME IInv, [Next]_vars
      PROVE  [Kept]_vars
  BY <1>2, <1>3
<1> QED
  BY <1>3, Invariance, PTL DEF Spec, PlayReplacesNothing
=============================================================================
