------------------------------- MODULE Mixer -------------------------------
(***************************************************************************)
(* The audio mixer (audio/mixer.go) and its callers (console.go): sounds   *)
(* are loaded and placed on streams by any number of goroutines, one       *)
(* goroutine mixes a block of every stream at a time.  Speech has stream   *)
(* 0, every other sound played has a stream of its own.                    *)
(*                                                                         *)
(* A sound is its name: what matters of its samples is how many there are. *)
(* A section that takes the lock and cannot wait is one step, that is      *)
(* taken when the mixing goroutine does not hold the lock.                 *)
(***************************************************************************)
EXTENDS Naturals, FiniteSets, Functions

CONSTANTS
    Calls,      \* goroutines that call the mixer, the event loop among them
    Loop,       \* the event loop
    Files,      \* sounds that are files
    Texts,      \* sounds that are speech
    NilSound,   \* what speechID returns when text to speech fails
    Length,     \* per sound, its number of samples
    BufSize,    \* samples of a block
    MaxPlays    \* bound: sounds given a stream number

Sounds == Files \cup Texts
SPEECH_STREAM_ID == 0

ASSUME MixerAssumption ==
    /\ Loop \in Calls
    /\ NilSound \notin Sounds /\ Files \cap Texts = {}
    /\ Length \in [Sounds -> Nat]
    /\ BufSize \in Nat \ {0} /\ MaxPlays \in Nat

VARIABLES
    streams,        \* Mixer.streams, a record for each stream ID in use
    nextStreamID,
    loaded,         \* Mixer.soundByName, as far as Load finds anything in it
    cached,         \* texts with a raw file in the cache directory
    muted,
    mixing,         \* the mixing goroutine holds the lock
    dead,           \* deadStreams of this block, not deleted yet
    call,           \* per caller, where it is in which call
    up              \* the program runs: no goroutine has panicked

library == <<loaded, cached>>
mixerVars == <<mixing, dead>>
vars == <<streams, nextStreamID, library, muted, mixerVars, call, up>>

\* A call without a caller, and where the others can be: in Load or speechID, in
\* ttsApi, in loadFile, in Play, in playOnStream, or waiting for done.
Idle == [at |-> "idle"]
Kinds == {"play", "speak", "sync"}
Places == {"lookup", "tts", "read", "play", "place", "wait"}

TypeOK ==
    /\ DOMAIN streams \subseteq 0 .. MaxPlays
    /\ \A sid \in DOMAIN streams : streams[sid] \in
        [sound : Sounds \cup {NilSound}, offset : Nat, done : Calls \cup {"nobody"}]
    /\ nextStreamID \in 1 .. MaxPlays + 1
    /\ loaded \subseteq Files /\ cached \subseteq Texts
    /\ muted \in BOOLEAN /\ mixing \in BOOLEAN /\ up \in BOOLEAN
    /\ dead \subseteq DOMAIN streams
    /\ ~mixing => dead = {}
    /\ call \in [Calls -> {Idle} \cup
        [at : Places, kind : Kinds, sound : Sounds \cup {NilSound}, stream : 0 .. MaxPlays]]
    /\ \A c \in Calls : call[c] # Idle /\ call[c].kind = "sync" => c = Loop

\* console.Start loads the knob sounds before anything else runs: Init is with
\* some of the files loaded, and some speeches cached by earlier runs.
Init ==
    /\ streams = [sid \in {} |-> {}]
    /\ nextStreamID = 1
    /\ loaded \in SUBSET Files
    /\ cached \in SUBSET Texts
    /\ muted = FALSE
    /\ mixing = FALSE /\ dead = {}
    /\ call = [c \in Calls |-> Idle]
    /\ up = TRUE

-----------------------------------------------------------------------------
(* What the callers ask for *)

Ask(c, at, kind, s) ==
    /\ call[c] = Idle
    /\ call' = [call EXCEPT ![c] = [at |-> at, kind |-> kind, sound |-> s, stream |-> 0]]
    /\ UNCHANGED <<streams, nextStreamID, library, muted, mixerVars, up>>

\* A knob or a meter plays a sound it has loaded.
PlaySound(c) == \E f \in loaded : Ask(c, "play", "play", f)

\* A Sound message has a goroutine of its own to load it and to play it.
LoadAndPlaySound(c) == c # Loop /\ \E s \in Sounds : Ask(c, "lookup", "play", s)

\* Speak and SpeakMode start a goroutine; SpeakSync is called by the loop.
Speak(c) == c # Loop /\ \E t \in Texts : Ask(c, "tts", "speak", t)
SpeakSync == ~muted /\ \E t \in Texts : Ask(Loop, "tts", "sync", t)

\* selectMode mutes while the meters are restored, and its own sounds are not
\* played.
Mute ==
    /\ call[Loop] = Idle
    /\ muted' = ~muted
    /\ UNCHANGED <<streams, nextStreamID, library, mixerVars, call, up>>

-----------------------------------------------------------------------------
(* A call *)

At(c, place) == call[c].at = place

Move(c, place) ==
    /\ call' = [call EXCEPT ![c].at = place]
    /\ UNCHANGED <<streams, nextStreamID, muted, mixerVars, up>>

Return(c) ==
    /\ call' = [call EXCEPT ![c] = Idle]
    /\ UNCHANGED <<streams, nextStreamID, muted, mixerVars, up>>

LookupFile(c) ==
    /\ At(c, "lookup") /\ call[c].sound \in Files
    /\ Move(c, IF call[c].sound \in loaded THEN "play" ELSE "read")
    /\ UNCHANGED library

\* No such file.
LookupFails(c) ==
    /\ At(c, "lookup") /\ call[c].sound \in Files \ loaded
    /\ Return(c)
    /\ UNCHANGED library

LookupSpeech(c) ==
    /\ At(c, "lookup") /\ call[c].sound \in Texts
    /\ Move(c, "tts")
    /\ UNCHANGED library

\* Load reads soundByName while loadFile writes it, which the runtime may find.
LookupRaces(c, d) ==
    /\ At(c, "lookup") /\ At(d, "read") /\ ~mixing
    /\ up' = FALSE
    /\ UNCHANGED <<streams, nextStreamID, library, muted, mixerVars, call>>

\* The cached file is used, or the api answers.
TtsApi(c) ==
    /\ At(c, "tts")
    /\ Move(c, "read")
    /\ cached' = cached \cup {call[c].sound}
    /\ UNCHANGED loaded

\* Load returns the nil sound, which Play ignores.
LoadSpeechFails(c) ==
    /\ At(c, "tts") /\ call[c].sound \notin cached /\ call[c].kind = "play"
    /\ Return(c)
    /\ UNCHANGED library

\* speak does not look at what it plays.
SpeakFails(c) ==
    /\ At(c, "tts") /\ call[c].sound \notin cached /\ call[c].kind # "play"
    /\ call' = [call EXCEPT ![c].at = "place", ![c].sound = NilSound]
    /\ UNCHANGED <<streams, nextStreamID, library, muted, mixerVars, up>>

\* loadFile.  A speech is registered under a name that Load does not look for.
LoadFile(c) ==
    /\ At(c, "read") /\ ~mixing
    /\ Move(c, IF call[c].kind = "play" THEN "play" ELSE "place")
    /\ loaded' = loaded \cup ({call[c].sound} \cap Files)
    /\ UNCHANGED cached

PlayMuted(c) ==
    /\ At(c, "play") /\ muted
    /\ Return(c)
    /\ UNCHANGED library

\* Mutation: a speech that is played as a sound gets a number.
PlaySpeechNumbered(c) ==
    /\ At(c, "play") /\ ~muted /\ call[c].sound \in Texts
    /\ ~mixing /\ nextStreamID <= MaxPlays
    /\ call' = [call EXCEPT ![c].at = "place", ![c].stream = nextStreamID]
    /\ nextStreamID' = nextStreamID + 1
    /\ UNCHANGED <<streams, library, muted, mixerVars, up>>

PlaySpeech(c) ==
    /\ At(c, "play") /\ ~muted /\ call[c].sound \in Texts
    /\ Move(c, "place")
    /\ UNCHANGED library

\* Mutation: the number is that of the streams in use.
PlayFileCounting(c) ==
    /\ At(c, "play") /\ ~muted /\ call[c].sound \in Files
    /\ ~mixing /\ nextStreamID <= MaxPlays
    /\ call' = [call EXCEPT ![c].at = "place",
                            ![c].stream = Cardinality(DOMAIN streams \ {0}) + 1]
    /\ nextStreamID' = nextStreamID + 1
    /\ UNCHANGED <<streams, library, muted, mixerVars, up>>

PlayFile(c) ==
    /\ At(c, "play") /\ ~muted /\ call[c].sound \in Files
    /\ ~mixing /\ nextStreamID <= MaxPlays
    /\ call' = [call EXCEPT ![c].at = "place", ![c].stream = nextStreamID]
    /\ nextStreamID' = nextStreamID + 1
    /\ UNCHANGED <<streams, library, muted, mixerVars, up>>

Stream(c) ==
    [sound |-> call[c].sound, offset |-> 0,
     done |-> IF call[c].kind = "sync" THEN c ELSE "nobody"]

\* What was on the stream is replaced.
PlayOnStream(c) ==
    /\ At(c, "place") /\ ~mixing
    /\ streams' = [i \in DOMAIN streams \cup {call[c].stream} |->
                      IF i = call[c].stream THEN Stream(c) ELSE streams[i]]
    /\ call' = [call EXCEPT ![c] = IF @.kind = "sync" THEN [@ EXCEPT !.at = "wait"] ELSE Idle]
    /\ UNCHANGED <<nextStreamID, library, muted, mixerVars, up>>

-----------------------------------------------------------------------------
(* The mixing goroutine *)

\* The block of a stream is its last one, which min() makes shorter.
LastBlock(s) == s.offset + BufSize >= Length[s.sound] - 1

\* Mutation: a sound of exactly one more block starts again.
MixOffByOne ==
    /\ ~mixing /\ DOMAIN streams # {}
    /\ \A sid \in DOMAIN streams : streams[sid].sound # NilSound
    /\ mixing' = TRUE
    /\ dead' = {sid \in DOMAIN streams : streams[sid].offset + BufSize = Length[streams[sid].sound] - 1}
    /\ streams' = [sid \in DOMAIN streams |->
                      IF sid \in dead' THEN streams[sid]
                      ELSE [streams[sid] EXCEPT !.offset =
                               IF LastBlock(streams[sid]) THEN @ ELSE @ + BufSize]]
    /\ UNCHANGED <<nextStreamID, library, muted, call, up>>

\* A tick adds a block of every stream.  With no stream it does nothing.
Mix ==
    /\ ~mixing /\ DOMAIN streams # {}
    /\ \A sid \in DOMAIN streams : streams[sid].sound # NilSound
    /\ mixing' = TRUE
    /\ dead' = {sid \in DOMAIN streams : LastBlock(streams[sid])}
    /\ streams' = [sid \in DOMAIN streams |->
                      IF sid \in dead' THEN streams[sid]
                      ELSE [streams[sid] EXCEPT !.offset = @ + BufSize]]
    /\ UNCHANGED <<nextStreamID, library, muted, call, up>>

\* The samples of the nil sound are asked for.
MixPanics ==
    /\ ~mixing
    /\ \E sid \in DOMAIN streams : streams[sid].sound = NilSound
    /\ up' = FALSE
    /\ UNCHANGED <<streams, nextStreamID, library, muted, mixerVars, call>>

\* done is unbuffered: the caller must be waiting for it.
Notify(sid) ==
    LET c == streams[sid].done
    IN  IF c = "nobody" THEN call' = call
        ELSE At(c, "wait") /\ call' = [call EXCEPT ![c] = Idle]

\* Mutation: a stream somebody waited for is left to the next block.
EndStreamKeeping(sid) ==
    /\ mixing /\ sid \in dead
    /\ Notify(sid)
    /\ dead' = dead \ {sid}
    /\ streams' = IF streams[sid].done # "nobody" THEN streams
                  ELSE Restrict(streams, DOMAIN streams \ {sid})
    /\ UNCHANGED <<nextStreamID, library, muted, mixing, up>>

\* Mutation: nobody is told that a speech ended.
EndStreamSilent(sid) ==
    /\ mixing /\ sid \in dead
    /\ dead' = dead \ {sid}
    /\ streams' = Restrict(streams, DOMAIN streams \ {sid})
    /\ UNCHANGED <<nextStreamID, library, muted, mixing, call, up>>

EndStream(sid) ==
    /\ mixing /\ sid \in dead
    /\ Notify(sid)
    /\ dead' = dead \ {sid}
    /\ streams' = Restrict(streams, DOMAIN streams \ {sid})
    /\ UNCHANGED <<nextStreamID, library, muted, mixing, up>>

\* The block is written, and the lock given back.
Write ==
    /\ mixing /\ dead = {}
    /\ mixing' = FALSE
    /\ UNCHANGED <<streams, nextStreamID, library, muted, dead, call, up>>

-----------------------------------------------------------------------------
Mixing == up /\ (Mix \/ MixPanics \/ Write \/ \E sid \in dead : EndStream(sid))

TakesLock(c) == up /\ (LoadFile(c) \/ PlayFile(c) \/ PlayOnStream(c))

Load(c) == LookupFile(c) \/ LookupFails(c) \/ LookupSpeech(c) \/ LoadSpeechFails(c)

Caller(c) ==
    \/ PlaySound(c) \/ LoadAndPlaySound(c) \/ Speak(c)
    \/ Load(c) \/ TtsApi(c) \/ SpeakFails(c) \/ PlayMuted(c) \/ PlaySpeech(c)
    \/ \E d \in Calls : LookupRaces(c, d)

Next ==
    \/ Mixing
    \/ up /\ (SpeakSync \/ Mute)
    \/ \E c \in Calls : TakesLock(c) \/ (up /\ Caller(c))

\* The mixing goroutine has a ticker, and its writes return.  Nothing is asked
\* of the callers: the api need not answer, nor any sound be played.
Fairness == WF_vars(Mixing)

Spec == Init /\ [][Next]_vars /\ Fairness

-----------------------------------------------------------------------------
\* Speech outputs are not mixed: a speech is on stream 0, whichever call asked
\* for it, and stream 0 plays nothing else.
SpeechNotMixed ==
    \A sid \in DOMAIN streams : streams[sid].sound \in Files <=> sid # SPEECH_STREAM_ID

\* The mixing goroutine holds the lock while it sends on done: whoever it has to
\* tell is waiting, so that it never waits itself, and everybody with it.
NotifiedWaits ==
    \A sid \in DOMAIN streams : streams[sid].done # "nobody" => At(streams[sid].done, "wait")

\* A sound that plays goes on until it ends: whatever is played meanwhile, it
\* neither loses its stream nor starts again.
PlayReplacesNothing ==
    [][\A sid \in DOMAIN streams \ {SPEECH_STREAM_ID} :
          IF sid \in DOMAIN streams'
          THEN streams'[sid].sound = streams[sid].sound /\ streams'[sid].offset >= streams[sid].offset
          ELSE LastBlock(streams[sid])]_vars

\* Every sound ends, whatever the others play: its length need be no multiple of
\* the block, and the callers notified in between do not hold the mixing up.
SoundsEnd == \A sid \in 1 .. MaxPlays : sid \in DOMAIN streams ~> sid \notin DOMAIN streams \/ ~up

\* The stream of speech is the one the loop waits for, or that of another.
Speaking(c) == SPEECH_STREAM_ID \in DOMAIN streams /\ streams[SPEECH_STREAM_ID].done = c

\* The loop gets back from SpeakSync, unless another speech takes its stream:
\* nothing else that is played meanwhile keeps it.
SyncReturns ==
    At(Loop, "wait") /\ Speaking(Loop) ~> ~At(Loop, "wait") \/ Speaking("nobody") \/ ~up

\* "rpi power off": SpeakSync returns, and the poweroff command is run.
PowerOffSpoken == At(Loop, "wait") ~> ~At(Loop, "wait") \/ ~up
=============================================================================
