--------------------------- MODULE DetectorsProofs ---------------------------
(***************************************************************************)
(* Proofs about the detectors, for every set of settings, models, images   *)
(* and network outputs: the exchange of services by the settings, what a   *)
(* session answers although it was refused, what is put into the network   *)
(* and what is made of its output.                                         *)
(***************************************************************************)
EXTENDS Detectors, FiniteSetTheorems, WellFoundedInduction, TLAPS

-----------------------------------------------------------------------------
(* The exchange of services: ExchangeInv is inductive as it stands.        *)

\* Whatever the store holds, settings come of it, and loading keeps an option
\* that makes sense.
LEMMA LoadedAreSettings ==
  ASSUME NEW raw \in Stored
  PROVE  LoadDetectorSettings(raw) \in Settings
  BY DefaultIsOption DEF Stored, Settings, Labels, LoadDetectorSettings

LEMMA ValidOptionsStay ==
  ASSUME NEW raw \in Stored, raw.option \in Options
  PROVE  LoadDetectorSettings(raw).option = raw.option
  BY DEF Stored, LoadDetectorSettings

\* What the settings view saves is well formed and keeps the hidden options.
LEMMA InputsAreStored ==
  ASSUME store \in Stored, NEW b \in Labels, NEW e \in Engines
  PROVE  /\ SettingsFromInputs(b, e) \in Stored
         /\ SettingsFromInputs(b, e).option = LoadDetectorSettings(store).option
         /\ SettingsFromInputs(b, e).option \in Options
  <1>1. LoadDetectorSettings(store) \in Settings
    BY LoadedAreSettings
  <1>2. LoadDetectorSettings(store).option \in Options
    BY <1>1 DEF Settings
  <1>. QED
    BY <1>2 DEF SettingsFromInputs, Stored

\* Settings that are in force are those of the service, which is open.
LEMMA InForceIsOpen ==
  ASSUME ExchangeInv, NEW s \in Settings, InForce(s)
  PROVE  from = s /\ service \in open
  BY NoneIsNoSettings DEF ExchangeInv, ActiveTellsService, InForce

\* An exchange of services leaves one in use, open, and the others closed
\* unless a close raised.
LEMMA CreateKeepsInv ==
  ASSUME ExchangeInv, NEW s \in Settings, NEW raises \in BOOLEAN, Create(s, raises)
  PROVE  /\ service' \in 1 .. MaxServices /\ service' # 0
         /\ service' \in open' /\ open' \subseteq 1 .. MaxServices
         /\ unclosed' \subseteq open' /\ open' \subseteq unclosed' \cup {service'}
         /\ from' = s /\ active' = s
  <1>1. /\ service \in 1 .. MaxServices /\ open \subseteq 1 .. MaxServices
        /\ unclosed \subseteq open /\ open \subseteq unclosed \cup {service}
    BY DEF ExchangeInv, ExchangeTypeOK, OldServicesAreClosed
  <1>2. /\ service < MaxServices /\ service' = service + 1
        /\ from' = s /\ active' = s
    BY DEF Create
  <1>3. service' \in 1 .. MaxServices /\ service' # 0 /\ service' # service
    BY <1>1, <1>2, ServicesAreCounted
  <1>4. CASE raises
    BY <1>1, <1>2, <1>3, <1>4 DEF Create, CloseOld
  <1>5. CASE ~raises
    <2>1. open' = (open \ {service}) \cup {service'} /\ unclosed' = unclosed \ {service}
      BY <1>5 DEF Create, CloseOld
    <2>. QED
      BY <1>1, <1>2, <1>3, <2>1
  <1>. QED
    BY <1>4, <1>5

LEMMA StepKeepsInv == ExchangeInv /\ [ExchangeNext]_exchangeVars => ExchangeInv'
  <1>. SUFFICES ASSUME ExchangeInv, [ExchangeNext]_exchangeVars
                PROVE  ExchangeInv'
    OBVIOUS
  <1>. USE DEF ExchangeInv, ExchangeTypeOK, ServiceInUseIsOpen, OldServicesAreClosed,
               ActiveTellsService
  <1>1. CASE ChangeFiles
    BY <1>1 DEF ChangeFiles, owned
  <1>2. CASE Save
    BY <1>2, InputsAreStored DEF Save, owned
  <1>3. CASE BackendDisplayText
    BY <1>3, LoadedAreSettings DEF BackendDisplayText, owned
  <1>4. CASE Start
    <2>1. known' \in Settings /\ files' = files /\ store' = store /\ run = 0
      BY <1>4, LoadedAreSettings DEF Start
    <2>2. CASE InForce(known') /\ UNCHANGED owned /\ run' = service
      BY <2>1, <2>2, InForceIsOpen DEF owned
    <2>3. CASE ~InForce(known') /\ CreateFails(known') /\ UNCHANGED run
      BY <2>1, <2>3 DEF CreateFails, owned
    <2>4. ASSUME NEW raises \in BOOLEAN, Create(known', raises),
                 run' = IF raises THEN 0 ELSE service'
          PROVE  ExchangeInv'
      <3>1. /\ service' \in 1 .. MaxServices /\ service' # 0
            /\ service' \in open' /\ open' \subseteq 1 .. MaxServices
            /\ unclosed' \subseteq open' /\ open' \subseteq unclosed' \cup {service'}
            /\ from' = known' /\ active' = known'
        BY <2>1, <2>4, CreateKeepsInv
      <3>2. run' \in 0 .. MaxServices /\ (run' # 0 => run' = service')
        BY <2>4, <3>1, ServicesAreCounted
      <3>. QED
        BY <2>1, <3>1, <3>2
    <2>. QED
      BY <1>4, <2>2, <2>3, <2>4 DEF Start
  <1>5. CASE RunEnds
    BY <1>5, ServicesAreCounted DEF RunEnds, owned
  <1>6. CASE Shutdown
    BY <1>6 DEF Shutdown, ForgetSettings
  <1>7. CASE UNCHANGED exchangeVars
    BY <1>7 DEF exchangeVars
  <1>. QED
    BY <1>1, <1>2, <1>3, <1>4, <1>5, <1>6, <1>7 DEF ExchangeNext

\* However settings are saved and starts, closes and shutdowns fail, for any
\* number of services: an inspection runs on the one service of the view model,
\* open and made of the settings in force, and no other is left open unless its
\* close() raised (_apply_detector_settings, shutdown).
THEOREM OneServiceInUse == ExchangeSpec => []ExchangeInv
  <1>1. ExchangeInit => ExchangeInv
    BY LoadedAreSettings, ServicesAreCounted
    DEF ExchangeInit, ExchangeInv, ExchangeTypeOK, ServiceInUseIsOpen, OldServicesAreClosed,
        ActiveTellsService
  <1>. QED
    BY <1>1, StepKeepsInv, PTL DEF ExchangeSpec

\* A run starts on the stored settings.
LEMMA StartUsesStore ==
  ASSUME ExchangeInv, [ExchangeNext]_exchangeVars, run = 0, run' # 0
  PROVE  from' = LoadDetectorSettings(store)
  <1>1. Start
    BY DEF ExchangeNext, ChangeFiles, Save, BackendDisplayText, RunEnds, Shutdown, exchangeVars
  <1>2. known' = LoadDetectorSettings(store) /\ known' \in Settings
    BY <1>1, LoadedAreSettings DEF Start, ExchangeInv, ExchangeTypeOK
  <1>. QED
    BY <1>1, <1>2, InForceIsOpen DEF Start, owned, CreateFails, Create

\* No step changes the hidden options.
LEMMA StepKeepsOptions ==
  ASSUME ExchangeInv, [ExchangeNext]_exchangeVars
  PROVE  LoadDetectorSettings(store').option = LoadDetectorSettings(store).option
  <1>1. CASE Save
    <2>1. PICK b \in Labels, e \in Engines : store' = SettingsFromInputs(b, e)
      BY <1>1 DEF Save
    <2>. QED
      BY <2>1, InputsAreStored, ValidOptionsStay DEF ExchangeInv, ExchangeTypeOK
  <1>2. CASE ~Save
    BY <1>2 DEF ExchangeNext, ChangeFiles, BackendDisplayText, Start, RunEnds, Shutdown,
                exchangeVars
  <1>. QED
    BY <1>1, <1>2

\* Every inspection starts on what was saved last, as the settings view says, and
\* saving there leaves the options alone that it does not show.
THEOREM SavedSettingsTakeEffect == ExchangeSpec => SettingsTakeEffect
  <1>1. ExchangeInv /\ [ExchangeNext]_exchangeVars =>
            [run = 0 /\ run' # 0 => from' = LoadDetectorSettings(store)]_exchangeVars
    BY StartUsesStore
  <1>2. ExchangeInv /\ [ExchangeNext]_exchangeVars =>
            [LoadDetectorSettings(store').option
                 = LoadDetectorSettings(store).option]_exchangeVars
    BY StepKeepsOptions
  <1>. QED
    BY <1>1, <1>2, OneServiceInUse, PTL
    DEF ExchangeSpec, SettingsTakeEffect, RunUsesStoredSettings, HiddenOptionsSurvive

-----------------------------------------------------------------------------
(* The session of the ONNX detector.                                       *)

\* The names of input and output are set only of a session that has one of each, and on
\* the device asked for; a load that returned has passed every check.
KeptSession ==
  /\ named \in BOOLEAN
  /\ named = TRUE =>
       /\ session.model.tensors = "one"
       /\ wanted.required => session.cuda
  /\ validated = TRUE => ValidateShapes(session.model)

\* What the last call answered was answered by the session that is kept now, and by
\* one that passed every check if that call made it.
AnswerOfKept ==
  answer.outcome = "ok" =>
    /\ named = TRUE /\ RunAccepts(session.model)
    /\ answer.loads = FALSE \/ validated = TRUE

SessionInv == KeptSession /\ AnswerOfKept

LEMMA InitSession == SessionInit => SessionInv
  <1>. SUFFICES ASSUME SessionInit PROVE SessionInv
    OBVIOUS
  <1>1. named = FALSE /\ validated = FALSE /\ answer.outcome = "none"
    BY DEF SessionInit
  <1>2. named \in BOOLEAN
    BY <1>1
  <1>. QED
    BY <1>1, <1>2 DEF SessionInv, KeptSession, AnswerOfKept

\* While the session is kept, so is what is known of it.
LEMMA KeptStays ==
  ASSUME SessionInv, UNCHANGED <<wanted, session, named, validated>>
  PROVE  KeptSession'
  BY DEF SessionInv, KeptSession, ValidateShapes

\* The first call that gets as far as a session keeps it, checked or not.
LEMMA LoadKeeps == SessionInv /\ DetectLoads => SessionInv'
  <1>. SUFFICES ASSUME SessionInv, DetectLoads PROVE SessionInv'
    OBVIOUS
  <1>1. /\ named' = Named(session') /\ validated' = Passes(session')
        /\ wanted' = wanted
    BY DEF DetectLoads
  <1>2. session'.model = file
    <2>1. session' \in {[model |-> file, cuda |-> c] : c \in IF wanted.cuda THEN BOOLEAN ELSE {FALSE}}
      BY DEF DetectLoads, Sessions
    <2>2. PICK c : session' = [model |-> file, cuda |-> c]
      BY <2>1
    <2>. QED
      BY <2>2
  <1>3. KeptSession'
    BY <1>1 DEF KeptSession, Named, Passes
  <1>4. answer'.outcome = "ok" => validated' = TRUE /\ RunAccepts(session'.model)
    <2>1. answer'.outcome = IF validated' /\ RunAccepts(file) THEN "ok" ELSE "raised"
      BY DEF DetectLoads, Answer
    <2>2. validated' \in BOOLEAN
      BY <1>1 DEF Passes
    <2>. QED
      BY <2>1, <2>2, <1>2
  <1>5. validated' = TRUE => named' = TRUE
    BY <1>1 DEF Named, Passes
  <1>. QED
    BY <1>3, <1>4, <1>5 DEF SessionInv, AnswerOfKept, RunAccepts

LEMMA StepSession == SessionInv /\ [SessionNext]_sessionVars => SessionInv'
  <1>. SUFFICES ASSUME SessionInv, [SessionNext]_sessionVars PROVE SessionInv'
    OBVIOUS
  <1>1. CASE UNCHANGED <<wanted, session, named, validated, answer>>
    <2>1. AnswerOfKept'
      BY <1>1 DEF SessionInv, AnswerOfKept, RunAccepts
    <2>. QED
      BY <1>1, <2>1, KeptStays DEF SessionInv
  <1>2. CASE DetectWithoutFile \/ LoadFails
    <2>1. answer'.outcome = "raised" /\ UNCHANGED <<wanted, session, named, validated>>
      BY <1>2 DEF DetectWithoutFile, LoadFails, Answer
    <2>. QED
      BY <2>1, KeptStays DEF SessionInv, AnswerOfKept
  <1>3. CASE DetectAgain
    <2>1. /\ answer'.outcome = IF named /\ RunAccepts(session.model) THEN "ok" ELSE "raised"
          /\ answer'.loads = FALSE
          /\ UNCHANGED <<wanted, session, named, validated>>
      BY <1>3 DEF DetectAgain, Answer
    <2>2. answer'.outcome = "ok" => named' /\ RunAccepts(session'.model)
      BY <2>1 DEF RunAccepts
    <2>3. named \in BOOLEAN
      BY DEF SessionInv, KeptSession
    <2>. QED
      BY <2>1, <2>2, KeptStays DEF SessionInv, AnswerOfKept
  <1>. QED
    BY <1>1, <1>2, <1>3, LoadKeeps DEF SessionNext, DetectTimed, ReplaceFile, sessionVars

\* Of what is kept follows what may be relied on.
LEMMA KeptIsChecked == SessionInv => AnswersAreChecked
  BY DEF SessionInv, KeptSession, AnswerOfKept, AnswersAreChecked, AnswersAreUsable,
         UncheckedOnlyAfterRefusal, RunAccepts, ValidateShapes

\* Whatever file is put there and whenever, detections come only of a session whose
\* model the program can read, and of one that passed every check or was refused by the
\* call that made it: OnnxDetector keeps a refused session and uses it without a check.
THEOREM AnswersAlwaysChecked == Spec => []AnswersAreChecked
  <1>1. Init => SessionInv
    BY InitSession DEF Init
  <1>2. SessionInv /\ [Next]_vars => SessionInv'
    <2>1. [Next]_vars => [SessionNext]_sessionVars
      BY DEF Next, vars
    <2>. QED
      BY <2>1, StepSession
  <1>. QED
    BY <1>1, <1>2, KeptIsChecked, PTL DEF Spec

-----------------------------------------------------------------------------
(* The letterbox.                                                          *)

\* What division with a rest gives.
LEMMA Division ==
  ASSUME NEW a \in Int, NEW b \in Nat \ {0}
  PROVE  /\ a \div b \in Int /\ a % b \in Int
         /\ a = b * (a \div b) + (a % b)
         /\ 0 <= a % b /\ a % b < b
  OBVIOUS

\* Rounded to the nearest, and to nothing up to a half.
LEMMA Rounded ==
  ASSUME NEW a \in Nat, NEW b \in Nat \ {0}
  PROVE  LET r == RoundHalfEven(a, b)
         IN  /\ r \in Nat
             /\ 2 * a - b <= 2 * (b * r) /\ 2 * (b * r) <= 2 * a + b
             /\ r = 0 <=> 2 * a <= b
  <1>. DEFINE q == a \div b  m == a % b
  <1>1. /\ q \in Int /\ m \in Int /\ a = b * q + m /\ 0 <= m /\ m < b
    BY Division
  <1>2. q >= 0
    BY <1>1
  <1>3. CASE 2 * m < b \/ (2 * m = b /\ q % 2 = 0)
    <2>1. RoundHalfEven(a, b) = q
      BY <1>3 DEF RoundHalfEven
    <2>. QED
      BY <1>1, <1>2, <2>1, <1>3
  <1>4. CASE ~(2 * m < b \/ (2 * m = b /\ q % 2 = 0))
    <2>1. RoundHalfEven(a, b) = q + 1
      BY <1>4 DEF RoundHalfEven
    <2>. QED
      BY <1>1, <1>2, <2>1, <1>4
  <1>. QED
    BY <1>3, <1>4

\* A rest is split in two halves, the odd pixel after the image, by both ways to round.
LEMMA Halves ==
  ASSUME NEW d \in Nat
  PROVE  /\ RoundHalfEven(5 * d - 1, 10) = d \div 2
         /\ RoundHalfEven(5 * d + 1, 10) = d - d \div 2
         /\ RoundHalfAway(5 * d - 1, 10) = d \div 2
         /\ RoundHalfAway(5 * d + 1, 10) = d - d \div 2
  BY DEF RoundHalfEven, RoundHalfAway

\* The longest side is one of the sides, the shortest too.
LEMMA LongestIsMax ==
  ASSUME NEW s, s[1] \in Int, s[2] \in Int
  PROVE  /\ Longest(s) \in {s[1], s[2]}
         /\ Longest(s) >= s[1] /\ Longest(s) >= s[2]
         /\ Min({s[1], s[2]}) \in {s[1], s[2]}
         /\ Min({s[1], s[2]}) <= s[1] /\ Min({s[1], s[2]}) <= s[2]
  <1>1. PICK x \in {s[1], s[2]} : \A y \in {s[1], s[2]} : x >= y
    BY s[1] >= s[2] \/ s[2] >= s[1]
  <1>2. PICK z \in {s[1], s[2]} : \A y \in {s[1], s[2]} : z <= y
    BY s[1] >= s[2] \/ s[2] >= s[1]
  <1>3. Max({s[1], s[2]}) \in {s[1], s[2]} /\ \A y \in {s[1], s[2]} : Max({s[1], s[2]}) >= y
    BY <1>1 DEF Max
  <1>4. Min({s[1], s[2]}) \in {s[1], s[2]} /\ \A y \in {s[1], s[2]} : Min({s[1], s[2]}) <= y
    BY <1>2 DEF Min
  <1>. QED
    BY <1>3, <1>4 DEF Longest

\* The sides that an image is scaled to: the longest becomes the network's size.
LEMMA Scaled ==
  ASSUME NEW a \in Nat \ {0}, NEW l \in Nat \ {0}, a <= l
  PROVE  LET r == RoundHalfEven(a * ImageSize, l)
         IN  /\ r \in 0 .. ImageSize
             /\ 2 * (l * r) - 2 * (a * ImageSize) \in -l .. l
             /\ r = 0 <=> 2 * (a * ImageSize) <= l
             /\ a = l => r = ImageSize
  <1>. DEFINE r == RoundHalfEven(a * ImageSize, l)
  <1>0. ImageSize \in Nat \ {0}
    BY ImageSizeIsPositive
  <1>1. a * ImageSize \in Nat /\ a * ImageSize <= l * ImageSize
    BY <1>0
  <1>2. /\ r \in Nat
        /\ 2 * (a * ImageSize) - l <= 2 * (l * r) /\ 2 * (l * r) <= 2 * (a * ImageSize) + l
        /\ r = 0 <=> 2 * (a * ImageSize) <= l
    BY <1>1, Rounded
  <1>. HIDE DEF r
  <1>3. l * r \in Nat /\ l * ImageSize \in Nat
    BY <1>2, <1>0
  <1>4. r <= ImageSize
    <2>1. SUFFICES ASSUME r >= ImageSize + 1 PROVE FALSE
      BY <1>0, <1>2
    <2>2. l * r >= l * (ImageSize + 1)
      BY <2>1, <1>0, <1>2
    <2>3. l * (ImageSize + 1) = l * ImageSize + l
      BY <1>0
    <2>. QED
      BY <2>2, <2>3, <1>1, <1>2, <1>3
  <1>5. ASSUME a = l PROVE r >= ImageSize
    <2>1. SUFFICES ASSUME r + 1 <= ImageSize PROVE FALSE
      BY <1>0, <1>2
    <2>2. l * (r + 1) <= l * ImageSize
      BY <2>1, <1>0, <1>2
    <2>3. l * (r + 1) = l * r + l
      BY <1>2
    <2>. QED
      BY <2>2, <2>3, <1>1, <1>2, <1>3, <1>5
  <1>. QED
    BY <1>0, <1>1, <1>2, <1>3, <1>4, <1>5 DEF r

\* A height and a width.
Sizes == (Nat \ {0}) \X (Nat \ {0})

\* An image has sides, the longest among them.
LEMMA SidesOfSize ==
  ASSUME NEW s \in Sizes
  PROVE  /\ s[1] \in Nat \ {0} /\ s[2] \in Nat \ {0}
         /\ Longest(s) \in {s[1], s[2]} /\ Longest(s) \in Nat \ {0}
         /\ Longest(s) >= s[1] /\ Longest(s) >= s[2]
  <1>1. s[1] \in Nat \ {0} /\ s[2] \in Nat \ {0}
    BY DEF Sizes
  <1>2. /\ Longest(s) \in {s[1], s[2]}
        /\ Longest(s) >= s[1] /\ Longest(s) >= s[2]
    <2>1. s[1] \in Int /\ s[2] \in Int
      BY <1>1
    <2>. QED
      BY <2>1, LongestIsMax
  <1>. QED
    BY <1>1, <1>2

\* The letterbox of an image: its sides, and what is left of the network's.
LEMMA LetterboxSides ==
  ASSUME NEW s \in Sizes
  PROVE  LET w == RoundHalfEven(s[2] * ImageSize, Longest(s))
             h == RoundHalfEven(s[1] * ImageSize, Longest(s))
         IN  Letterbox(s) =
               IF w = 0 \/ h = 0 THEN <<>>
               ELSE Padded((ImageSize - h) \div 2, (ImageSize - h) - (ImageSize - h) \div 2,
                           (ImageSize - w) \div 2, (ImageSize - w) - (ImageSize - w) \div 2,
                           <<w, h>>)
  <1>. DEFINE w == RoundHalfEven(s[2] * ImageSize, Longest(s))
              h == RoundHalfEven(s[1] * ImageSize, Longest(s))
  <1>1. /\ s[1] \in Nat \ {0} /\ s[2] \in Nat \ {0}
        /\ Longest(s) \in Nat \ {0} /\ Longest(s) >= s[1] /\ Longest(s) >= s[2]
    BY SidesOfSize
  <1>2. w \in 0 .. ImageSize /\ h \in 0 .. ImageSize
    BY <1>1, Scaled
  <1>. HIDE DEF w, h
  <1>3. ImageSize - w \in Nat /\ ImageSize - h \in Nat
    BY <1>2, ImageSizeIsPositive
  <1>4. /\ RoundHalfEven(5 * (ImageSize - w) - 1, 10) = (ImageSize - w) \div 2
        /\ RoundHalfEven(5 * (ImageSize - w) + 1, 10) = (ImageSize - w) - (ImageSize - w) \div 2
        /\ RoundHalfEven(5 * (ImageSize - h) - 1, 10) = (ImageSize - h) \div 2
        /\ RoundHalfEven(5 * (ImageSize - h) + 1, 10) = (ImageSize - h) - (ImageSize - h) \div 2
    BY <1>3, Halves
  <1>5. ~(s[1] <= 0 \/ s[2] <= 0 \/ ImageSize - w < 0 \/ ImageSize - h < 0)
    BY <1>1, <1>3
  <1>6. (w <= 0 <=> w = 0) /\ (h <= 0 <=> h = 0)
    BY <1>2
  <1>. QED
    BY <1>4, <1>5, <1>6 DEF Letterbox, w, h

\* The C++ detectors make the same letterbox.
LEMMA LetterboxesSame ==
  ASSUME NEW s \in Sizes
  PROVE  LetterboxResize(s) = Letterbox(s)
  <1>. DEFINE w == RoundHalfEven(s[2] * ImageSize, Longest(s))
              h == RoundHalfEven(s[1] * ImageSize, Longest(s))
  <1>1. /\ s[1] \in Nat \ {0} /\ s[2] \in Nat \ {0}
        /\ Longest(s) \in Nat \ {0} /\ Longest(s) >= s[1] /\ Longest(s) >= s[2]
    BY SidesOfSize
  <1>2. w \in 0 .. ImageSize /\ h \in 0 .. ImageSize
    BY <1>1, Scaled
  <1>3. Letterbox(s) =
          IF w = 0 \/ h = 0 THEN <<>>
          ELSE Padded((ImageSize - h) \div 2, (ImageSize - h) - (ImageSize - h) \div 2,
                      (ImageSize - w) \div 2, (ImageSize - w) - (ImageSize - w) \div 2,
                      <<w, h>>)
    BY LetterboxSides
  <1>. HIDE DEF w, h
  <1>4. ImageSize - w \in Nat /\ ImageSize - h \in Nat
    BY <1>2, ImageSizeIsPositive
  <1>5. /\ RoundHalfAway(5 * (ImageSize - w) - 1, 10) = (ImageSize - w) \div 2
        /\ RoundHalfAway(5 * (ImageSize - w) + 1, 10) = (ImageSize - w) - (ImageSize - w) \div 2
        /\ RoundHalfAway(5 * (ImageSize - h) - 1, 10) = (ImageSize - h) \div 2
        /\ RoundHalfAway(5 * (ImageSize - h) + 1, 10) = (ImageSize - h) - (ImageSize - h) \div 2
    BY <1>4, Halves
  <1>6. ~(s[1] <= 0 \/ s[2] <= 0 \/ w > ImageSize \/ h > ImageSize)
    BY <1>1, <1>2, ImageSizeIsPositive
  <1>7. (w <= 0 <=> w = 0) /\ (h <= 0 <=> h = 0)
    BY <1>2
  <1>. QED
    BY <1>3, <1>5, <1>6, <1>7 DEF LetterboxResize, w, h

\* The letterbox fills the network's input, with the image in the middle of it; it
\* refuses only an image one side of which would vanish.
LEMMA LetterboxFills ==
  ASSUME NEW s \in Sizes
  PROVE  LET p == Letterbox(s)
         IN  IF p = <<>>
             THEN 2 * Min({s[1], s[2]}) * ImageSize <= Longest(s)
             ELSE /\ p.size = <<ImageSize, ImageSize>>
                  /\ \A k \in 1 .. 2 :
                         LET rest == p.size[k] - p.unpad[k] - p.pad[k]
                         IN  rest - p.pad[k] \in 0 .. 1
  <1>. DEFINE w == RoundHalfEven(s[2] * ImageSize, Longest(s))
              h == RoundHalfEven(s[1] * ImageSize, Longest(s))
              p == Letterbox(s)
              least == Min({s[1], s[2]})
  <1>1. /\ s[1] \in Nat \ {0} /\ s[2] \in Nat \ {0}
        /\ Longest(s) \in Nat \ {0} /\ Longest(s) >= s[1] /\ Longest(s) >= s[2]
    BY SidesOfSize
  <1>2. /\ w \in 0 .. ImageSize /\ h \in 0 .. ImageSize
        /\ w = 0 => 2 * (s[2] * ImageSize) <= Longest(s)
        /\ h = 0 => 2 * (s[1] * ImageSize) <= Longest(s)
    BY <1>1, Scaled
  <1>3. p = IF w = 0 \/ h = 0 THEN <<>>
            ELSE Padded((ImageSize - h) \div 2, (ImageSize - h) - (ImageSize - h) \div 2,
                        (ImageSize - w) \div 2, (ImageSize - w) - (ImageSize - w) \div 2,
                        <<w, h>>)
    BY LetterboxSides
  <1>4. /\ least \in Nat /\ least <= s[1] /\ least <= s[2]
        /\ ImageSize \in Nat
    BY <1>1, LongestIsMax, ImageSizeIsPositive
  <1>. HIDE DEF w, h, p, least
  <1>5. CASE w = 0 \/ h = 0
    <2>1. least * ImageSize <= s[1] * ImageSize /\ least * ImageSize <= s[2] * ImageSize
      BY <1>1, <1>4
    <2>2. /\ 2 * least * ImageSize = 2 * (least * ImageSize)
          /\ least * ImageSize \in Nat /\ s[1] * ImageSize \in Nat /\ s[2] * ImageSize \in Nat
      BY <1>1, <1>4
    <2>3. 2 * least * ImageSize <= Longest(s)
      BY <1>1, <1>2, <1>5, <2>1, <2>2
    <2>4. p = <<>>
      BY <1>3, <1>5
    <2>. QED
      BY <2>3, <2>4 DEF p, least
  <1>6. CASE ~(w = 0 \/ h = 0)
    <2>. DEFINE left == (ImageSize - w) \div 2  top == (ImageSize - h) \div 2
    <2>1. /\ left \in Nat /\ (ImageSize - w) - 2 * left \in 0 .. 1
          /\ top \in Nat /\ (ImageSize - h) - 2 * top \in 0 .. 1
      BY <1>2, <1>4
    <2>2. /\ p.pad = <<left, top>> /\ p.unpad = <<w, h>>
          /\ p.size = <<w + left + ((ImageSize - w) - left), h + top + ((ImageSize - h) - top)>>
      BY <1>3, <1>6 DEF Padded
    <2>3. p # <<>>
      BY <1>3, <1>6 DEF Padded
    <2>. HIDE DEF left, top
    <2>4. p.size = <<ImageSize, ImageSize>>
      BY <2>1, <2>2, <1>2, <1>4
    <2>5. /\ p.size[1] - p.unpad[1] - p.pad[1] - p.pad[1] \in 0 .. 1
          /\ p.size[2] - p.unpad[2] - p.pad[2] - p.pad[2] \in 0 .. 1
      BY <2>1, <2>2, <2>4, <1>2, <1>4
    <2>6. \A k \in 1 .. 2 : k = 1 \/ k = 2
      OBVIOUS
    <2>7. \A k \in 1 .. 2 : p.size[k] - p.unpad[k] - p.pad[k] - p.pad[k] \in 0 .. 1
      BY <2>5, <2>6
    <2>. QED
      BY <2>3, <2>4, <2>7 DEF p
  <1>. QED
    BY <1>5, <1>6

\* The far corner of the picture is the one of the image, to half a pixel.
LEMMA CornersReached ==
  ASSUME NEW s \in Sizes, Letterbox(s) # <<>>
  PROVE  \A k \in 1 .. 2 :
            LET side == s[3 - k] * ImageSize
                far == Letterbox(s).unpad[k] * Longest(s)
            IN  2 * far - 2 * side \in -Longest(s) .. Longest(s)
  <1>. DEFINE w == RoundHalfEven(s[2] * ImageSize, Longest(s))
              h == RoundHalfEven(s[1] * ImageSize, Longest(s))
              l == Longest(s)
  <1>1. /\ s[1] \in Nat \ {0} /\ s[2] \in Nat \ {0}
        /\ l \in Nat \ {0} /\ l >= s[1] /\ l >= s[2]
    BY SidesOfSize
  <1>2. /\ w \in 0 .. ImageSize /\ h \in 0 .. ImageSize
        /\ 2 * (l * w) - 2 * (s[2] * ImageSize) \in -l .. l
        /\ 2 * (l * h) - 2 * (s[1] * ImageSize) \in -l .. l
    BY <1>1, Scaled
  <1>3. Letterbox(s).unpad = <<w, h>>
    BY LetterboxSides DEF Padded
  <1>. HIDE DEF w, h, l
  <1>4. w * l = l * w /\ h * l = l * h
    BY <1>1, <1>2
  <1>5. \A k \in 1 .. 2 : k = 1 \/ k = 2
    OBVIOUS
  <1>6. /\ 2 * (w * l) - 2 * (s[2] * ImageSize) \in -l .. l
        /\ 2 * (h * l) - 2 * (s[1] * ImageSize) \in -l .. l
    BY <1>2, <1>4
  <1>7. /\ 3 - 1 = 2 /\ 3 - 2 = 1
        /\ Letterbox(s).unpad[1] = w /\ Letterbox(s).unpad[2] = h
    BY <1>3
  <1>8. \A k \in 1 .. 2 : 2 * (Letterbox(s).unpad[k] * l) - 2 * (s[3 - k] * ImageSize) \in -l .. l
    BY <1>5, <1>6, <1>7
  <1>. QED
    BY <1>8 DEF l

\* What was letterboxed last.
LetterboxInv ==
  Letterboxed =>
    /\ shape \in Shapes
    /\ decoded = [python |-> Letterbox(shape), cpp |-> LetterboxResize(shape)]

\* Only the letterbox of another image takes its place.
LEMMA StepLetterbox == LetterboxInv /\ [DecodingNext]_decodingVars => LetterboxInv'
  <1>. SUFFICES ASSUME LetterboxInv, [DecodingNext]_decodingVars PROVE LetterboxInv'
    OBVIOUS
  <1>1. CASE UNCHANGED decodingVars
    BY <1>1 DEF decodingVars, LetterboxInv, Letterboxed, Letterbox, LetterboxResize
  <1>2. CASE LetterboxImage
    BY <1>2 DEF LetterboxImage, LetterboxInv
  <1>3. CASE PostprocessOutput
    <2>1. PICK a, b, c, d : decoded' = [candidates |-> a, results |-> b, cpp |-> c, nms |-> d]
      BY <1>3 DEF PostprocessOutput
    <2>2. "python" \notin DOMAIN decoded'
      BY <2>1
    <2>. QED
      BY <2>2 DEF LetterboxInv, Letterboxed
  <1>. QED
    BY <1>1, <1>2, <1>3 DEF DecodingNext

\* What was letterboxed is as the lemmas say.
LEMMA LetterboxedFaithful ==
  ASSUME LetterboxInv
  PROVE  LetterboxIsFaithful
  <1>. SUFFICES ASSUME Letterboxed PROVE LetterboxesAgree /\ RestoreReachesCorners
    BY DEF LetterboxIsFaithful, LetterboxesAgree, RestoreReachesCorners
  <1>1. /\ shape \in Sizes
        /\ decoded.python = Letterbox(shape) /\ decoded.cpp = LetterboxResize(shape)
    BY ShapesAreSizes DEF LetterboxInv, Sizes
  <1>2. LetterboxesAgree
    BY <1>1, LetterboxesSame, LetterboxFills DEF LetterboxesAgree
  <1>3. RestoreReachesCorners
    BY <1>1, CornersReached DEF RestoreReachesCorners
  <1>. QED
    BY <1>2, <1>3

\* For every size of image and of network, the detectors of both languages put the same
\* picture into the network, filling it, and what it finds at the corners of the picture
\* is restored to the corners of the image.  Images have a height and a width.
THEOREM LetterboxAlwaysFaithful == Spec => []LetterboxIsFaithful
  <1>1. Init => LetterboxInv
    BY DEF Init, DecodingInit, LetterboxInv, Letterboxed
  <1>2. LetterboxInv /\ [Next]_vars => LetterboxInv'
    <2>1. [Next]_vars => [DecodingNext]_decodingVars
      BY DEF Next, vars
    <2>. QED
      BY <2>1, StepLetterbox
  <1>3. LetterboxInv => LetterboxIsFaithful
    BY LetterboxedFaithful
  <1>. QED
    BY <1>1, <1>2, <1>3, PTL DEF Spec

-----------------------------------------------------------------------------
(* The suppression: least and greatest numbers, and chains.                *)

\* Numbers have a least one among them.
LEMMA LeastIsOne ==
  ASSUME NEW T, T \subseteq Nat, T # {}
  PROVE  Min(T) \in T /\ \A y \in T : Min(T) <= y
  <1>. DEFINE R == OpToRel(<, Nat)
  <1>1. IsWellFoundedOn(R, Nat)
    BY NatLessThanWellFounded
  <1>2. \A x, y \in Nat : x < y => <<x, y>> \in R
    BY DEF OpToRel
  <1>. HIDE DEF R
  <1>3. PICK x \in T : \A y \in T : ~(<<y, x>> \in R)
    BY <1>1, WFMin
  <1>4. \A y \in T : ~(y < x)
    BY <1>2, <1>3, Zenon
  <1>5. \A y \in T : x <= y
    BY <1>4
  <1>. QED
    BY <1>3, <1>5 DEF Min

\* A set that has 0 and, with a number, the next one, has them all.
LEMMA Climb ==
  ASSUME NEW T, 0 \in T, \A n \in Nat : n \in T => n + 1 \in T
  PROVE  \A n \in Nat : n \in T
  <1>. DEFINE N == Nat \ T
  <1>1. ASSUME N # {} PROVE FALSE
    <2>1. Min(N) \in N /\ \A y \in N : Min(N) <= y
      BY <1>1, LeastIsOne
    <2>2. PICK m \in N : \A y \in N : m <= y
      BY <2>1
    <2>3. m # 0 /\ m - 1 \in Nat /\ (m - 1) + 1 = m
      BY <2>2
    <2>4. m - 1 \notin N
      BY <2>2, <2>3
    <2>. QED
      BY <2>2, <2>3, <2>4
  <1>. QED
    BY <1>1

\* A finite set of numbers has a greatest one.
LEMMA GreatestIsOne ==
  ASSUME NEW S, S \subseteq Nat, IsFiniteSet(S), S # {}
  PROVE  Max(S) \in S /\ \A y \in S : Max(S) >= y
  <1>. DEFINE Has(R) == R # {} => \E x \in R : \A y \in R : x >= y
              T == {k \in Nat : \A R \in SUBSET S : Cardinality(R) = k => Has(R)}
  <1>0. \A R \in SUBSET S : IsFiniteSet(R) /\ Cardinality(R) \in Nat
    BY FS_Subset, FS_CardinalityType
  <1>1. 0 \in T
    BY <1>0, FS_EmptySet
  <1>2. ASSUME NEW k \in Nat, k \in T PROVE k + 1 \in T
    <2>. SUFFICES ASSUME NEW R \in SUBSET S, Cardinality(R) = k + 1, R # {}
                  PROVE  \E x \in R : \A y \in R : x >= y
      OBVIOUS
    <2>1. PICK x \in R : TRUE
      OBVIOUS
    <2>2. Cardinality(R \ {x}) = k /\ R \ {x} \in SUBSET S
      <3>1. IsFiniteSet(R)
        BY <1>0
      <3>2. Cardinality(R \ {x}) = Cardinality(R) - 1
        BY <2>1, <3>1, FS_RemoveElement
      <3>. QED
        BY <3>2
    <2>3. Has(R \ {x})
      BY <1>2, <2>2
    <2>4. CASE R \ {x} = {}
      <3>1. \A y \in R : y = x /\ y \in Nat
        BY <2>4
      <3>. QED
        BY <3>1
    <2>5. CASE R \ {x} # {}
      <3>1. PICK z \in R \ {x} : \A y \in R \ {x} : z >= y
        BY <2>3, <2>5
      <3>. QED
        BY <2>1, <3>1
    <2>. QED
      BY <2>4, <2>5
  <1>. HIDE DEF T
  <1>3. \A n \in Nat : n \in T
    BY <1>1, <1>2, Climb
  <1>4. Has(S)
    <2>1. Cardinality(S) \in T
      BY <1>0, <1>3
    <2>. QED
      BY <2>1 DEF T
  <1>. QED
    BY <1>4 DEF Max

\* What a function gives for finitely many arguments is finitely many values.
LEMMA ImageIsFinite ==
  ASSUME NEW M, IsFiniteSet(M), NEW f \in [M -> Nat]
  PROVE  IsFiniteSet({f[p] : p \in M})
  <1>. DEFINE I == {f[p] : p \in M}
  <1>1. f \in Surjection(M, I)
    BY DEF Surjection
  <1>. HIDE DEF I
  <1>2. IsFiniteSet(I)
    BY <1>1, FS_Surjection
  <1>. QED
    BY <1>2 DEF I

\* A set in which one of two comes before the other.
Chain(S, R) ==
  /\ \A a, b \in S : a # b => <<a, b>> \in R \/ <<b, a>> \in R
  /\ \A a, b, c \in S : <<a, b>> \in R /\ <<b, c>> \in R => <<a, c>> \in R
  /\ \A a \in S : <<a, a>> \notin R

\* A finite one has a last one.
LEMMA LastIsOne ==
  ASSUME NEW S, IsFiniteSet(S), NEW R, Chain(S, R), S # {}
  PROVE  \E m \in S : \A x \in S \ {m} : <<x, m>> \in R
  <1>. DEFINE Has(B) == \E m \in B : \A x \in B \ {m} : <<x, m>> \in R
              T == {k \in Nat : \A B \in SUBSET S : Cardinality(B) = k + 1 => Has(B)}
  <1>0. \A B \in SUBSET S : IsFiniteSet(B) /\ Cardinality(B) \in Nat
    BY FS_Subset, FS_CardinalityType
  <1>1. 0 \in T
    <2>. SUFFICES ASSUME NEW B \in SUBSET S, Cardinality(B) = 0 + 1 PROVE Has(B)
      OBVIOUS
    <2>1. PICK m : B = {m}
      BY <1>0, FS_Singleton
    <2>. QED
      BY <2>1
  <1>2. ASSUME NEW k \in Nat, k \in T PROVE k + 1 \in T
    <2>. SUFFICES ASSUME NEW B \in SUBSET S, Cardinality(B) = (k + 1) + 1 PROVE Has(B)
      OBVIOUS
    <2>1. PICK e \in B : TRUE
      <3>1. Cardinality({}) = 0 /\ (k + 1) + 1 # 0
        BY FS_EmptySet
      <3>. QED
        BY <3>1
    <2>2. Cardinality(B \ {e}) = k + 1
      <3>1. IsFiniteSet(B)
        BY <1>0
      <3>2. Cardinality(B \ {e}) = Cardinality(B) - 1
        BY <2>1, <3>1, FS_RemoveElement
      <3>. QED
        BY <3>2
    <2>3. PICK m \in B \ {e} : \A x \in (B \ {e}) \ {m} : <<x, m>> \in R
      <3>1. B \ {e} \in SUBSET S
        OBVIOUS
      <3>2. Has(B \ {e})
        BY <1>2, <2>2, <3>1
      <3>. QED
        BY <3>2
    <2>4. \A a, b \in B : a # b => <<a, b>> \in R \/ <<b, a>> \in R
      BY DEF Chain
    <2>5. \A a, b, c \in B : <<a, b>> \in R /\ <<b, c>> \in R => <<a, c>> \in R
      BY DEF Chain
    <2>6. CASE <<e, m>> \in R
      <3>1. \A x \in B \ {m} : <<x, m>> \in R
        BY <2>3, <2>6
      <3>. QED
        BY <3>1, <2>3
    <2>7. CASE <<m, e>> \in R
      <3>1. \A x \in B \ {e} : <<x, e>> \in R
        BY <2>1, <2>3, <2>5, <2>7
      <3>. QED
        BY <3>1, <2>1
    <2>. QED
      BY <2>1, <2>3, <2>4, <2>6, <2>7
  <1>3. \A k \in Nat : k \in T
    <2>. HIDE DEF T
    <2>. QED
      BY <1>1, <1>2, Climb
  <1>4. Cardinality(S) \in Nat /\ Cardinality(S) # 0
    BY FS_CardinalityType, FS_EmptySet
  <1>5. Cardinality(S) - 1 \in Nat /\ Cardinality(S) = (Cardinality(S) - 1) + 1
    BY <1>4
  <1>6. Has(S)
    BY <1>3, <1>5
  <1>. QED
    BY <1>6

\* What is left of a set when each is dropped that one left before it takes away.
Kernel(S, R, O, K) ==
  \A c \in S : c \in K <=> ~\E k \in K : <<k, c>> \in R /\ <<k, c>> \in O

\* There is one,
LEMMA KernelExists ==
  ASSUME NEW S, IsFiniteSet(S), NEW R, Chain(S, R), NEW O
  PROVE  \E K \in SUBSET S : Kernel(S, R, O, K)
  <1>. DEFINE Has(B) == \E K \in SUBSET B : Kernel(B, R, O, K)
              T == {k \in Nat : \A B \in SUBSET S : Cardinality(B) = k => Has(B)}
  <1>0. \A B \in SUBSET S : IsFiniteSet(B) /\ Cardinality(B) \in Nat /\ Chain(B, R)
    <2>1. \A B \in SUBSET S : Chain(B, R)
      BY DEF Chain
    <2>. QED
      BY <2>1, FS_Subset, FS_CardinalityType
  <1>1. 0 \in T
    <2>. SUFFICES ASSUME NEW B \in SUBSET S, Cardinality(B) = 0 PROVE Has(B)
      OBVIOUS
    <2>1. B = {}
      BY <1>0, FS_EmptySet
    <2>. QED
      BY <2>1 DEF Kernel
  <1>2. ASSUME NEW k \in Nat, k \in T PROVE k + 1 \in T
    <2>. SUFFICES ASSUME NEW B \in SUBSET S, Cardinality(B) = k + 1 PROVE Has(B)
      OBVIOUS
    <2>1. B # {}
      <3>1. Cardinality({}) = 0 /\ k + 1 # 0
        BY FS_EmptySet
      <3>. QED
        BY <3>1
    <2>2. PICK m \in B : \A x \in B \ {m} : <<x, m>> \in R
      BY <1>0, <2>1, LastIsOne
    <2>. DEFINE A == B \ {m}
    <2>3. Cardinality(A) = k
      <3>1. IsFiniteSet(B)
        BY <1>0
      <3>2. Cardinality(A) = Cardinality(B) - 1
        BY <3>1, FS_RemoveElement
      <3>. QED
        BY <3>2
    <2>4. PICK K \in SUBSET A : Kernel(A, R, O, K)
      <3>1. A \in SUBSET S
        OBVIOUS
      <3>. HIDE DEF A
      <3>. QED
        BY <3>1, <1>2, <2>3
    <2>5. \A c \in B : <<m, c>> \notin R
      <3>1. Chain(B, R)
        BY <1>0
      <3>. QED
        BY <2>2, <3>1 DEF Chain
    <2>6. \A c \in A : c \in K <=> ~\E j \in K : <<j, c>> \in R /\ <<j, c>> \in O
      BY <2>4 DEF Kernel
    <2>7. CASE \E j \in K : <<j, m>> \in R /\ <<j, m>> \in O
      <3>1. Kernel(B, R, O, K)
        BY <2>6, <2>7 DEF Kernel
      <3>. QED
        BY <3>1
    <2>8. CASE ~\E j \in K : <<j, m>> \in R /\ <<j, m>> \in O
      <3>. DEFINE L == K \cup {m}
      <3>1. \A c \in B : (\E j \in L : <<j, c>> \in R /\ <<j, c>> \in O)
                            <=> \E j \in K : <<j, c>> \in R /\ <<j, c>> \in O
        BY <2>5
      <3>2. Kernel(B, R, O, L)
        <4>1. \A c \in A : c \in L <=> c \in K
          OBVIOUS
        <4>. QED
          BY <2>6, <2>8, <3>1, <4>1 DEF Kernel
      <3>. QED
        BY <3>2, <2>2
    <2>. QED
      BY <2>7, <2>8
  <1>3. \A k \in Nat : k \in T
    <2>. HIDE DEF T
    <2>. QED
      BY <1>1, <1>2, Climb
  <1>4. Has(S)
    BY <1>0, <1>3
  <1>. QED
    BY <1>4

\* and only one: where two differ first, nothing would tell them apart.
LEMMA KernelIsOnly ==
  ASSUME NEW S, IsFiniteSet(S), NEW R, Chain(S, R), NEW O,
         NEW K \in SUBSET S, Kernel(S, R, O, K), NEW L \in SUBSET S, Kernel(S, R, O, L)
  PROVE  K = L
  <1>. DEFINE D == {c \in S : ~(c \in K <=> c \in L)}
              Q == {p \in S \X S : <<p[2], p[1]>> \in R}
  <1>1. ASSUME D # {} PROVE FALSE
    <2>1. Chain(D, Q)
      BY DEF Chain
    <2>2. IsFiniteSet(D)
      BY FS_Subset
    <2>3. PICK f \in D : \A x \in D \ {f} : <<x, f>> \in Q
      <3>. HIDE DEF D, Q
      <3>. QED
        BY <1>1, <2>1, <2>2, LastIsOne
    <2>4. \A x \in D \ {f} : <<f, x>> \in R
      BY <2>3
    <2>5. \A k \in S : <<k, f>> \in R => (k \in K <=> k \in L)
      <3>. SUFFICES ASSUME NEW k \in S, <<k, f>> \in R, k \in D PROVE FALSE
        OBVIOUS
      <3>. QED
        BY <2>3, <2>4 DEF Chain
    <2>6. (\E k \in K : <<k, f>> \in R /\ <<k, f>> \in O)
            <=> \E k \in L : <<k, f>> \in R /\ <<k, f>> \in O
      BY <2>5
    <2>7. f \in K <=> f \in L
      BY <2>3, <2>6 DEF Kernel
    <2>. QED
      BY <2>3, <2>7
  <1>. QED
    BY <1>1

-----------------------------------------------------------------------------
(* The candidates of an output.                                            *)

\* The least and the greatest of two.
LEMMA OfTwo ==
  ASSUME NEW a \in Int, NEW b \in Int
  PROVE  /\ Min({a, b}) = IF a <= b THEN a ELSE b
         /\ Max({a, b}) = IF a >= b THEN a ELSE b
  <1>. DEFINE m == IF a <= b THEN a ELSE b  n == IF a >= b THEN a ELSE b
  <1>1. m \in {a, b} /\ \A y \in {a, b} : m <= y
    OBVIOUS
  <1>2. n \in {a, b} /\ \A y \in {a, b} : n >= y
    OBVIOUS
  <1>3. \A x \in {a, b} : (\A y \in {a, b} : x <= y) => x = m
    OBVIOUS
  <1>4. \A x \in {a, b} : (\A y \in {a, b} : x >= y) => x = n
    OBVIOUS
  <1>5. Min({a, b}) \in {a, b} /\ \A y \in {a, b} : Min({a, b}) <= y
    BY <1>1 DEF Min
  <1>6. Max({a, b}) \in {a, b} /\ \A y \in {a, b} : Max({a, b}) >= y
    BY <1>2 DEF Max
  <1>7. Min({a, b}) = m
    BY <1>3, <1>5
  <1>8. Max({a, b}) = n
    BY <1>4, <1>6
  <1>. QED
    BY <1>7, <1>8

\* A number cut off at nothing is one.
LEMMA CutIsNumber ==
  ASSUME NEW z \in Int
  PROVE  Max({0, z}) \in Int
  <1>1. Max({0, z}) = IF 0 >= z THEN 0 ELSE z
    BY OfTwo
  <1>. QED
    BY <1>1

\* A number cut off at nothing and at a limit.
LEMMA Clipped ==
  ASSUME NEW v \in Int, NEW m \in Nat
  PROVE  Max({0, Min({v, m})}) \in 0 .. m
  <1>1. Min({v, m}) = IF v <= m THEN v ELSE m
    BY OfTwo
  <1>2. Min({v, m}) \in Int /\ Min({v, m}) <= m
    BY <1>1
  <1>3. Max({0, Min({v, m})}) = IF 0 >= Min({v, m}) THEN 0 ELSE Min({v, m})
    BY <1>2, OfTwo
  <1>. QED
    BY <1>2, <1>3

\* A list of candidates as the network gives it.
Boxes == Int \X Int \X Int \X Int
Entries == [box : Boxes, scores : Seq(Nat \cup {NotFinite}) \ {<<>>}]
Lists == Seq(Entries)

\* What a list holds.
LEMMA ElementFacts ==
  ASSUME NEW S, NEW q \in Seq(S), NEW k \in DOMAIN q
  PROVE  q[k] \in S /\ k \in Nat
  OBVIOUS

\* The sides of the image, in the units of the boxes.
Width == Shown[2] * ImageSize
Height == Shown[1] * ImageSize
Inside(box) ==
  box[1] \in 0 .. Width /\ box[2] \in 0 .. Height /\ box[3] \in 0 .. Width /\ box[4] \in 0 .. Height

\* The image has sides; its letterbox has margins.
LEMMA ShownFacts ==
  /\ Shown[1] \in Nat /\ Shown[2] \in Nat /\ Width \in Nat /\ Height \in Nat
  /\ Longest(Shown) \in Nat
  /\ Letterbox(Shown).pad[1] \in Int /\ Letterbox(Shown).pad[2] \in Int
  <1>. DEFINE w == RoundHalfEven(Shown[2] * ImageSize, Longest(Shown))
              h == RoundHalfEven(Shown[1] * ImageSize, Longest(Shown))
              left == (ImageSize - w) \div 2
              top == (ImageSize - h) \div 2
  <1>1. Shown \in Sizes /\ Letterbox(Shown) # <<>>
    BY ShownIsLetterboxed DEF Sizes
  <1>2. /\ Shown[1] \in Nat \ {0} /\ Shown[2] \in Nat \ {0}
        /\ Longest(Shown) \in Nat \ {0} /\ Longest(Shown) >= Shown[1] /\ Longest(Shown) >= Shown[2]
    BY <1>1, SidesOfSize
  <1>3. w \in 0 .. ImageSize /\ h \in 0 .. ImageSize
    BY <1>2, Scaled
  <1>4. Letterbox(Shown).pad = <<left, top>>
    BY <1>1, LetterboxSides DEF Padded
  <1>. HIDE DEF w, h
  <1>5. left \in Int /\ top \in Int
    BY <1>3, ImageSizeIsPositive
  <1>. HIDE DEF left, top
  <1>6. Width \in Nat /\ Height \in Nat
    BY <1>2, ImageSizeIsPositive DEF Width, Height
  <1>. QED
    BY <1>2, <1>4, <1>5, <1>6

\* A restored box lies in the image.
LEMMA RestoredInside ==
  ASSUME NEW box \in Boxes
  PROVE  Restore(box, Shown) \in Boxes /\ Inside(Restore(box, Shown))
  <1>. DEFINE at(v, k) == (v - Letterbox(Shown).pad[k]) * Longest(Shown)
              v1 == at(box[1] - box[3] \div 2, 1)
              v2 == at(box[2] - box[4] \div 2, 2)
              v3 == at(box[1] + box[3] \div 2, 1)
              v4 == at(box[2] + box[4] \div 2, 2)
              r == Restore(box, Shown)
  <1>1. box[1] \in Int /\ box[2] \in Int /\ box[3] \in Int /\ box[4] \in Int
    BY DEF Boxes
  <1>2. /\ box[1] - box[3] \div 2 \in Int /\ box[2] - box[4] \div 2 \in Int
        /\ box[1] + box[3] \div 2 \in Int /\ box[2] + box[4] \div 2 \in Int
    BY <1>1
  <1>3. \A v \in Int : at(v, 1) \in Int /\ at(v, 2) \in Int
    BY ShownFacts
  <1>. HIDE DEF at
  <1>4. v1 \in Int /\ v2 \in Int /\ v3 \in Int /\ v4 \in Int
    BY <1>2, <1>3
  <1>5. r = <<Max({0, Min({v1, Width})}), Max({0, Min({v2, Height})}),
              Max({0, Min({v3, Width})}), Max({0, Min({v4, Height})})>>
    BY DEF Restore, at, Width, Height
  <1>. HIDE DEF v1, v2, v3, v4
  <1>6. /\ Max({0, Min({v1, Width})}) \in 0 .. Width
        /\ Max({0, Min({v2, Height})}) \in 0 .. Height
        /\ Max({0, Min({v3, Width})}) \in 0 .. Width
        /\ Max({0, Min({v4, Height})}) \in 0 .. Height
    BY <1>4, ShownFacts, Clipped
  <1>. HIDE DEF r
  <1>7. Inside(r)
    BY <1>5, <1>6 DEF Inside
  <1>8. r \in Boxes
    BY <1>5, <1>6, ShownFacts DEF Boxes
  <1>. QED
    BY <1>7, <1>8 DEF r

\* A candidate as it is looked at.
Cands == [index : Nat, score : Nat, box : Boxes, class : Nat]

\* A candidate with finite scores has a best one and a class.
LEMMA CandidateFacts ==
  ASSUME NEW list \in Lists, NEW k \in DOMAIN list, NotFinite \notin Range(list[k].scores)
  PROVE  /\ Candidate(list, k, Shown) \in Cands
         /\ Candidate(list, k, Shown).index = k
         /\ Inside(Candidate(list, k, Shown).box)
  <1>. DEFINE scores == list[k].scores
              best == Max(Range(scores))
              tops == {c \in DOMAIN scores : scores[c] = best}
  <1>1. /\ list[k].box \in Boxes /\ scores \in Seq(Nat \cup {NotFinite}) /\ scores # <<>>
        /\ k \in Nat
    <2>1. \A e \in Entries :
             e.box \in Boxes /\ e.scores \in Seq(Nat \cup {NotFinite}) \ {<<>>}
      BY DEF Entries
    <2>2. list[k] \in Entries /\ k \in Nat
      BY ElementFacts DEF Lists
    <2>. QED
      BY <2>1, <2>2
  <1>2. Restore(list[k].box, Shown) \in Boxes /\ Inside(Restore(list[k].box, Shown))
    BY <1>1, RestoredInside
  <1>. HIDE DEF scores
  <1>3. \A c \in DOMAIN scores : scores[c] \in Nat
    BY <1>1 DEF Range, scores
  <1>4. DOMAIN scores = 1 .. Len(scores) /\ Len(scores) \in Nat /\ Len(scores) # 0
    BY <1>1
  <1>5. IsFiniteSet(DOMAIN scores)
    BY <1>4, FS_Interval
  <1>6. scores \in [DOMAIN scores -> Nat]
    BY <1>1, <1>3
  <1>7. /\ IsFiniteSet(Range(scores)) /\ Range(scores) \subseteq Nat /\ Range(scores) # {}
    <2>1. Range(scores) = {scores[c] : c \in DOMAIN scores}
      BY DEF Range
    <2>2. IsFiniteSet({scores[c] : c \in DOMAIN scores})
      BY <1>5, <1>6, ImageIsFinite
    <2>3. 1 \in DOMAIN scores
      BY <1>4
    <2>. QED
      BY <1>3, <2>1, <2>2, <2>3
  <1>8. best \in Range(scores) /\ best \in Nat
    BY <1>7, GreatestIsOne
  <1>9. tops # {} /\ tops \subseteq Nat
    <2>1. PICK c \in DOMAIN scores : best = scores[c]
      BY <1>8 DEF Range
    <2>2. DOMAIN scores \subseteq Nat
      BY <1>4
    <2>. QED
      BY <2>1, <2>2
  <1>. HIDE DEF best
  <1>10. Min(tops) \in Nat
    BY <1>9, LeastIsOne
  <1>. HIDE DEF tops
  <1>11. Candidate(list, k, Shown) = [index |-> k, score |-> best,
             box |-> Restore(list[k].box, Shown), class |-> Min(tops)]
    BY DEF Candidate, scores, best, tops
  <1>. QED
    BY <1>1, <1>2, <1>8, <1>10, <1>11 DEF Cands

\* What is decoded of an output.
Decodable(C) ==
  /\ IsFiniteSet(C) /\ C \subseteq Cands
  /\ \A c, d \in C : c # d => c.index # d.index
  /\ \A c \in C : Inside(c.box) /\ c.box[1] < c.box[3] /\ c.box[2] < c.box[4]

\* Everything that is decoded of an output is so.
LEMMA CandidatesFacts ==
  ASSUME NEW list \in Lists
  PROVE  Decodable(Candidates(list, Shown))
  <1>. DEFINE C == Candidates(list, Shown)
              F == {k \in DOMAIN list : NotFinite \notin Range(list[k].scores)}
              All == {Candidate(list, k, Shown) : k \in F}
  <1>1. \A c \in C : /\ c \in All /\ c.box[1] < c.box[3] /\ c.box[2] < c.box[4]
    BY DEF Candidates
  <1>2. \A k \in F : /\ Candidate(list, k, Shown) \in Cands
                     /\ Candidate(list, k, Shown).index = k
                     /\ Inside(Candidate(list, k, Shown).box)
    BY CandidateFacts
  <1>3. IsFiniteSet(All)
    <2>1. DOMAIN list = 1 .. Len(list) /\ Len(list) \in Nat
      BY DEF Lists
    <2>2. IsFiniteSet(DOMAIN list)
      BY <2>1, FS_Interval
    <2>3. IsFiniteSet(F)
      BY <2>2, FS_Subset
    <2>. DEFINE f == [k \in F |-> Candidate(list, k, Shown)]
    <2>4. f \in Surjection(F, All)
      BY DEF Surjection
    <2>. HIDE DEF f, All, F
    <2>. QED
      BY <2>3, <2>4, FS_Surjection
  <1>. HIDE DEF C, F
  <1>4. \A c \in All : c \in Cands /\ Inside(c.box)
    BY <1>2
  <1>5. \A c, d \in All : c # d => c.index # d.index
    BY <1>2
  <1>. HIDE DEF All
  <1>6. IsFiniteSet(C)
    <2>1. C \subseteq All
      BY <1>1
    <2>. QED
      BY <1>3, <2>1, FS_Subset
  <1>. QED
    BY <1>1, <1>4, <1>5, <1>6 DEF Decodable, C

-----------------------------------------------------------------------------
(* What the suppression keeps of them.                                     *)

\* Different candidates have different ranks.
Ranks(C) == {rank \in [C -> Nat] : \A c, d \in C : c # d => rank[c] # rank[d]}

\* Before and Overlapping as relations.
Order(C, rank) == {p \in C \X C : Before(rank, p[1], p[2])}
Overlaps(C) == {p \in C \X C : Overlapping(p[1], p[2])}

\* With ranks that differ, one of two candidates is before the other.
LEMMA OrderIsChain ==
  ASSUME NEW C, C \subseteq Cands, NEW rank \in Ranks(C), NEW D \in SUBSET C
  PROVE  Chain(D, Order(C, rank))
  <1>1. \A a \in C : a.score \in Nat /\ rank[a] \in Nat
    BY DEF Cands, Ranks
  <1>2. \A a, b \in C : a # b => rank[a] # rank[b]
    BY DEF Ranks
  <1>3. \A a, b \in C : <<a, b>> \in Order(C, rank) <=> Before(rank, a, b)
    BY DEF Order
  <1>4. \A a, b \in C : a # b => Before(rank, a, b) \/ Before(rank, b, a)
    BY <1>1, <1>2 DEF Before
  <1>5. \A a, b, c \in C : Before(rank, a, b) /\ Before(rank, b, c) => Before(rank, a, c)
    BY <1>1 DEF Before
  <1>6. \A a \in C : ~Before(rank, a, a)
    BY <1>1 DEF Before
  <1>. QED
    BY <1>3, <1>4, <1>5, <1>6 DEF Chain

\* What the loop ends with.
IsKept(D, rank, K) ==
  \A c \in D : c \in K <=> ~\E k \in K : Before(rank, k, c) /\ Overlapping(k, c)

\* The loop ends, and in one way only.
LEMMA KeptFacts ==
  ASSUME NEW C, C \subseteq Cands, IsFiniteSet(C), NEW rank \in Ranks(C), NEW D \in SUBSET C
  PROVE  /\ Kept(D, rank) \in SUBSET D
         /\ IsKept(D, rank, Kept(D, rank))
         /\ \A K \in SUBSET D : IsKept(D, rank, K) => K = Kept(D, rank)
  <1>1. Chain(D, Order(C, rank)) /\ IsFiniteSet(D)
    BY OrderIsChain, FS_Subset
  <1>2. \A K \in SUBSET D : Kernel(D, Order(C, rank), Overlaps(C), K) <=> IsKept(D, rank, K)
    <2>1. \A a, b \in C : /\ <<a, b>> \in Order(C, rank) <=> Before(rank, a, b)
                          /\ <<a, b>> \in Overlaps(C) <=> Overlapping(a, b)
      BY DEF Order, Overlaps
    <2>. QED
      BY <2>1 DEF Kernel, IsKept
  <1>3. \E K \in SUBSET D : IsKept(D, rank, K)
    BY <1>1, <1>2, KernelExists
  <1>4. \A K, L \in SUBSET D : IsKept(D, rank, K) /\ IsKept(D, rank, L) => K = L
    BY <1>1, <1>2, KernelIsOnly
  <1>5. Kept(D, rank) = CHOOSE K \in SUBSET D : IsKept(D, rank, K)
    BY DEF Kept, IsKept
  <1>6. Kept(D, rank) \in SUBSET D /\ IsKept(D, rank, Kept(D, rank))
    BY <1>3, <1>5
  <1>. QED
    BY <1>4, <1>6

\* Class by class is all at once, since only candidates of a class overlap.
LEMMA ByClassIsAtOnce ==
  ASSUME NEW C, C \subseteq Cands, IsFiniteSet(C), NEW rank \in Ranks(C)
  PROVE  KeptByClass(C, rank) = Kept(C, rank)
  <1>. DEFINE Of(class) == {c \in C : c.class = class}
              U == KeptByClass(C, rank)
  <1>1. U = UNION {Kept(Of(class), rank) : class \in {c.class : c \in C}}
    BY DEF KeptByClass
  <1>2. \A class : /\ Kept(Of(class), rank) \in SUBSET Of(class)
                   /\ IsKept(Of(class), rank, Kept(Of(class), rank))
    <2>. TAKE class
    <2>1. Of(class) \in SUBSET C
      OBVIOUS
    <2>. HIDE DEF Of
    <2>. QED
      BY <2>1, KeptFacts
  <1>3. \A c : c \in U <=> \E d \in C : c \in Kept(Of(d.class), rank)
    <2>. HIDE DEF U, Of
    <2>. QED
      BY <1>1
  <1>4. \A class : \A c \in Kept(Of(class), rank) : c \in C /\ c.class = class
    BY <1>2
  <1>. HIDE DEF U
  <1>5. U \in SUBSET C
    <2>. HIDE DEF Of
    <2>. QED
      BY <1>3, <1>4
  <1>6. \A c \in C : c \in U <=> c \in Kept(Of(c.class), rank)
    <2>. HIDE DEF Of
    <2>. QED
      BY <1>3, <1>4
  <1>7. ASSUME NEW c \in C
        PROVE  c \in U <=> ~\E k \in U : Before(rank, k, c) /\ Overlapping(k, c)
    <2>1. c \in Of(c.class)
      OBVIOUS
    <2>. DEFINE K == Kept(Of(c.class), rank)
    <2>2. c \in K <=> ~\E k \in K : Before(rank, k, c) /\ Overlapping(k, c)
      BY <1>2, <2>1 DEF IsKept
    <2>3. K \subseteq C /\ \A k \in K : k.class = c.class
      BY <1>2
    <2>4. \A k \in C : Overlapping(k, c) => k.class = c.class
      BY DEF Overlapping
    <2>5. \A k \in C : k.class = c.class => (k \in U <=> k \in K)
      BY <1>6
    <2>6. c \in U <=> c \in K
      BY <1>6
    <2>. HIDE DEF K, Of
    <2>. QED
      BY <1>5, <2>2, <2>3, <2>4, <2>5, <2>6
  <1>8. IsKept(C, rank, U)
    BY <1>7 DEF IsKept
  <1>. QED
    BY <1>5, <1>8, KeptFacts DEF U

\* Which of two overlaps the other does not matter.
LEMMA OverlapIsMutual ==
  ASSUME NEW a \in Cands, NEW b \in Cands
  PROVE  Overlapping(a, b) <=> Overlapping(b, a)
  <1>. DEFINE x == a.box  y == b.box
  <1>1. \A m, n : {m, n} = {n, m}
    OBVIOUS
  <1>2. /\ Max({x[1], y[1]}) = Max({y[1], x[1]}) /\ Max({x[2], y[2]}) = Max({y[2], x[2]})
        /\ Min({x[3], y[3]}) = Min({y[3], x[3]}) /\ Min({x[4], y[4]}) = Min({y[4], x[4]})
    BY <1>1, Zenon
  <1>3. \A c \in Cands : BoxArea(c.box) \in Int
    <2>. TAKE c \in Cands
    <2>1. c.box[3] - c.box[1] \in Int /\ c.box[4] - c.box[2] \in Int
      BY DEF Cands, Boxes
    <2>. DEFINE w == c.box[3] - c.box[1]  h == c.box[4] - c.box[2]
    <2>2. BoxArea(c.box) = Max({0, w}) * Max({0, h})
      BY DEF BoxArea
    <2>. HIDE DEF w, h
    <2>3. \A z \in Int : Max({0, z}) \in Int
      BY CutIsNumber
    <2>4. w \in Int /\ h \in Int
      BY <2>1 DEF w, h
    <2>5. Max({0, w}) \in Int /\ Max({0, h}) \in Int
      BY <2>3, <2>4
    <2>6. \A m, n \in Int : m * n \in Int
      OBVIOUS
    <2>. QED
      BY <2>2, <2>5, <2>6, Zenon
  <1>4. BoxArea(x) + BoxArea(y) = BoxArea(y) + BoxArea(x)
    BY <1>3
  <1>. HIDE DEF x, y
  <1>5. Common(x, y) = Common(y, x)
    BY <1>2 DEF Common
  <1>6. BoxIou(x, y) = BoxIou(y, x)
    BY <1>4, <1>5, Zenon DEF BoxIou
  <1>. QED
    BY <1>6 DEF Overlapping, x, y

\* No two that are kept overlap, and what is dropped overlaps one of no lower score.
LEMMA KeptIsSound ==
  ASSUME NEW C, C \subseteq Cands, IsFiniteSet(C), NEW rank \in Ranks(C)
  PROVE  /\ Kept(C, rank) \subseteq C
         /\ \A a, b \in Kept(C, rank) : a # b => ~Overlapping(a, b)
         /\ \A c \in C \ Kept(C, rank) :
               \E k \in Kept(C, rank) : Overlapping(k, c) /\ k.score >= c.score
  <1>. DEFINE K == Kept(C, rank)
  <1>1. K \in SUBSET C /\ IsKept(C, rank, K)
    BY KeptFacts
  <1>. HIDE DEF K
  <1>2. \A a \in C : a.score \in Nat /\ rank[a] \in Nat
    BY DEF Cands, Ranks
  <1>3. \A a, b \in C : a # b => Before(rank, a, b) \/ Before(rank, b, a)
    BY <1>2 DEF Before, Ranks
  <1>4. \A a, b \in K : a # b => ~Overlapping(a, b)
    <2>. SUFFICES ASSUME NEW a \in K, NEW b \in K, a # b, Overlapping(a, b) PROVE FALSE
      OBVIOUS
    <2>1. a \in C /\ b \in C /\ a \in Cands /\ b \in Cands
      BY <1>1
    <2>2. Overlapping(b, a)
      BY <2>1, OverlapIsMutual
    <2>. QED
      BY <1>1, <1>3, <2>1, <2>2 DEF IsKept
  <1>5. \A c \in C \ K : \E k \in K : Overlapping(k, c) /\ k.score >= c.score
    <2>. TAKE c \in C \ K
    <2>1. PICK k \in K : Before(rank, k, c) /\ Overlapping(k, c)
      BY <1>1 DEF IsKept
    <2>2. k.score >= c.score
      BY <1>1, <1>2, <2>1 DEF Before
    <2>. QED
      BY <2>1, <2>2
  <1>. QED
    BY <1>1, <1>4, <1>5 DEF K

\* Both ways to sort are by score first.
LEMMA SortedFacts ==
  ASSUME NEW K, K \subseteq Cands, IsFiniteSet(K), NEW rank
  PROVE  /\ DOMAIN Sorted(K, rank) = K /\ DOMAIN SortedByScore(K, rank) = K
         /\ \A a, b \in K : Sorted(K, rank)[a] < Sorted(K, rank)[b] => a.score >= b.score
         /\ \A a, b \in K :
               SortedByScore(K, rank)[a] < SortedByScore(K, rank)[b] => a.score >= b.score
  <1>. DEFINE P(c) == {k \in K : Before(rank, k, c)}
              Q(c) == {k \in K : Ahead(rank, k, c)}
  <1>1. \A a \in K : a.score \in Nat
    BY DEF Cands
  <1>2. \A a, b \in K : a.score < b.score => P(b) \subseteq P(a) /\ Q(b) \subseteq Q(a)
    BY <1>1 DEF Before, Ahead
  <1>3. \A A, B \in SUBSET K : B \subseteq A => ~(Cardinality(A) < Cardinality(B))
    <2>. TAKE A, B \in SUBSET K
    <2>1. IsFiniteSet(A)
      BY FS_Subset
    <2>2. B \subseteq A => /\ Cardinality(B) <= Cardinality(A)
                           /\ Cardinality(A) \in Nat /\ Cardinality(B) \in Nat
      BY <2>1, FS_Subset, FS_CardinalityType
    <2>. QED
      BY <2>2
  <1>4. /\ \A a \in K : Sorted(K, rank)[a] = Cardinality(P(a))
        /\ \A a \in K : SortedByScore(K, rank)[a] = Cardinality(Q(a))
        /\ DOMAIN Sorted(K, rank) = K /\ DOMAIN SortedByScore(K, rank) = K
    BY DEF Sorted, SortedByScore
  <1>5. \A a \in K : P(a) \in SUBSET K /\ Q(a) \in SUBSET K
    OBVIOUS
  <1>. HIDE DEF P, Q
  <1>6. ASSUME NEW a \in K, NEW b \in K, ~(a.score >= b.score)
        PROVE  /\ ~(Sorted(K, rank)[a] < Sorted(K, rank)[b])
               /\ ~(SortedByScore(K, rank)[a] < SortedByScore(K, rank)[b])
    <2>1. P(b) \subseteq P(a) /\ Q(b) \subseteq Q(a)
      BY <1>1, <1>2, <1>6
    <2>. QED
      BY <1>3, <1>4, <1>5, <2>1
  <1>. QED
    BY <1>4, <1>6

\* One more of the same is more by it.
LEMMA Times ==
  ASSUME NEW n \in Nat, NEW a \in Nat, NEW b \in Nat, a + 1 <= b
  PROVE  n * a + n <= n * b
  <1>. DEFINE d == b - (a + 1)
  <1>1. d \in Nat /\ b = (a + 1) + d
    OBVIOUS
  <1>. HIDE DEF d
  <1>2. n * d \in Nat /\ n * a \in Nat
    BY <1>1
  <1>3. n * ((a + 1) + d) = (n * a + n) + n * d
    BY <1>1
  <1>4. n * b = (n * a + n) + n * d
    BY <1>1, <1>3
  <1>. QED
    BY <1>2, <1>4

\* The corners of a box inside the image are pixels of it.
LEMMA PixelFacts ==
  ASSUME NEW c \in Cands, Inside(c.box), c.box[1] < c.box[3], c.box[2] < c.box[4]
  PROVE  LET p == Pixels(c)
         IN  /\ 0 <= p[1] /\ p[1] <= p[3] /\ p[3] <= Shown[2]
             /\ 0 <= p[2] /\ p[2] <= p[4] /\ p[4] <= Shown[1]
             /\ BoxArea(c.box) > 0
  <1>. DEFINE r(v) == RoundHalfEven(v, ImageSize)
  <1>1. /\ ImageSize \in Nat \ {0} /\ Shown[1] \in Nat /\ Shown[2] \in Nat
        /\ Width = Shown[2] * ImageSize /\ Height = Shown[1] * ImageSize
        /\ Width \in Nat /\ Height \in Nat
    BY ImageSizeIsPositive, ShownFacts DEF Width, Height
  <1>2. /\ c.box[1] \in Nat /\ c.box[2] \in Nat /\ c.box[3] \in Nat /\ c.box[4] \in Nat
        /\ c.box[3] <= Width /\ c.box[4] <= Height
    BY <1>1 DEF Inside
  <1>3. \A v \in Nat : /\ r(v) \in Nat
                       /\ 2 * v - ImageSize <= 2 * (ImageSize * r(v))
                       /\ 2 * (ImageSize * r(v)) <= 2 * v + ImageSize
    BY <1>1, Rounded
  <1>. HIDE DEF r
  <1>4. ASSUME NEW v \in Nat, NEW w \in Nat, v < w PROVE r(v) <= r(w)
    <2>. SUFFICES ASSUME r(w) + 1 <= r(v) PROVE FALSE
      BY <1>3
    <2>. DEFINE x == ImageSize * r(v)  y == ImageSize * r(w)
    <2>1. /\ r(v) \in Nat /\ 2 * v - ImageSize <= 2 * x /\ 2 * x <= 2 * v + ImageSize
          /\ r(w) \in Nat /\ 2 * w - ImageSize <= 2 * y /\ 2 * y <= 2 * w + ImageSize
      BY <1>3
    <2>2. y + ImageSize <= x /\ x \in Nat /\ y \in Nat
      BY <1>1, <2>1, Times
    <2>. HIDE DEF x, y
    <2>. QED
      BY <1>1, <1>4, <2>1, <2>2
  <1>5. ASSUME NEW v \in Nat, NEW n \in Nat, v <= n * ImageSize PROVE r(v) <= n
    <2>. SUFFICES ASSUME n + 1 <= r(v) PROVE FALSE
      BY <1>3
    <2>. DEFINE x == ImageSize * r(v)  y == ImageSize * n
    <2>1. r(v) \in Nat /\ 2 * x <= 2 * v + ImageSize
      BY <1>3
    <2>2. y + ImageSize <= x /\ x \in Nat /\ y \in Nat
      BY <1>1, <2>1, Times
    <2>3. v <= y
      BY <1>1, <1>5
    <2>. HIDE DEF x, y
    <2>. QED
      BY <1>1, <2>1, <2>2, <2>3
  <1>6. /\ Pixels(c)[1] = r(c.box[1]) /\ Pixels(c)[2] = r(c.box[2])
        /\ Pixels(c)[3] = r(c.box[3]) /\ Pixels(c)[4] = r(c.box[4])
    BY DEF Pixels, r
  <1>7. BoxArea(c.box) > 0
    <2>. DEFINE w == c.box[3] - c.box[1]  h == c.box[4] - c.box[2]
    <2>1. w \in Nat \ {0} /\ h \in Nat \ {0}
      BY <1>2
    <2>2. BoxArea(c.box) = Max({0, w}) * Max({0, h})
      BY DEF BoxArea
    <2>. HIDE DEF w, h
    <2>3. Max({0, w}) = w /\ Max({0, h}) = h
      BY <2>1, OfTwo
    <2>4. w * h > 0
      BY <2>1
    <2>. QED
      BY <2>2, <2>3, <2>4
  <1>8. r(c.box[1]) \in Nat /\ r(c.box[2]) \in Nat
    BY <1>2, <1>3
  <1>9. /\ r(c.box[1]) <= r(c.box[3]) /\ r(c.box[3]) <= Shown[2]
        /\ r(c.box[2]) <= r(c.box[4]) /\ r(c.box[4]) <= Shown[1]
    BY <1>1, <1>2, <1>4, <1>5
  <1>. QED
    BY <1>6, <1>7, <1>8, <1>9

-----------------------------------------------------------------------------
(* What is decoded.                                                        *)

\* The ranks of both languages tell candidates apart; Python may rank by index.
LEMMA RanksOfBoth ==
  ASSUME NEW C, Decodable(C)
  PROVE  /\ ByIndex(C) \in PythonRanks(C)
         /\ PythonRanks(C) \subseteq Ranks(C)
  <1>1. \A c \in C : c.index \in Nat
    BY DEF Decodable, Cands
  <1>. DEFINE I == {c.index : c \in C}
  <1>2. I \subseteq Nat
    BY <1>1
  <1>3. PythonRanks(C) \subseteq Ranks(C)
    <2>. HIDE DEF I
    <2>1. [C -> I] \subseteq [C -> Nat]
      BY <1>2
    <2>. QED
      BY <2>1 DEF PythonRanks, Ranks, I
  <1>4. ByIndex(C) \in [C -> I]
    BY DEF ByIndex
  <1>5. \A c, d \in C : c # d => ByIndex(C)[c] # ByIndex(C)[d]
    BY DEF ByIndex, Decodable
  <1>. QED
    BY <1>3, <1>4, <1>5 DEF PythonRanks

\* What SuppressionIsSound says of one result.
IsSound(C, result) ==
  /\ \A a, b \in DOMAIN result :
         /\ result[a] < result[b] => a.score >= b.score
         /\ a # b => ~Overlapping(a, b)
  /\ \A c \in C \ DOMAIN result :
         \E k \in DOMAIN result : Overlapping(k, c) /\ k.score >= c.score
  /\ \A c \in DOMAIN result :
         LET p == Pixels(c)
         IN  /\ 0 <= p[1] /\ p[1] <= p[3] /\ p[3] <= Shown[2]
             /\ 0 <= p[2] /\ p[2] <= p[4] /\ p[4] <= Shown[1]
             /\ BoxArea(c.box) > 0

\* Whatever the ranks, what is kept is sound, in both orders.
LEMMA ResultsAreSound ==
  ASSUME NEW C, Decodable(C), NEW rank \in Ranks(C)
  PROVE  /\ IsSound(C, Sorted(Kept(C, rank), rank))
         /\ IsSound(C, SortedByScore(Kept(C, rank), rank))
  <1>. DEFINE K == Kept(C, rank)
  <1>1. C \subseteq Cands /\ IsFiniteSet(C)
    BY DEF Decodable
  <1>2. /\ K \subseteq C
        /\ \A a, b \in K : a # b => ~Overlapping(a, b)
        /\ \A c \in C \ K : \E k \in K : Overlapping(k, c) /\ k.score >= c.score
    BY <1>1, KeptIsSound
  <1>. HIDE DEF K
  <1>3. K \subseteq Cands /\ IsFiniteSet(K)
    BY <1>1, <1>2, FS_Subset
  <1>4. \A c \in K : LET p == Pixels(c)
                     IN  /\ 0 <= p[1] /\ p[1] <= p[3] /\ p[3] <= Shown[2]
                         /\ 0 <= p[2] /\ p[2] <= p[4] /\ p[4] <= Shown[1]
                         /\ BoxArea(c.box) > 0
    <2>1. \A c \in K : /\ c \in Cands /\ Inside(c.box)
                       /\ c.box[1] < c.box[3] /\ c.box[2] < c.box[4]
      BY <1>2, <1>3 DEF Decodable
    <2>. QED
      BY <2>1, PixelFacts
  <1>5. ASSUME NEW result, DOMAIN result = K,
               \A a, b \in K : result[a] < result[b] => a.score >= b.score
        PROVE  IsSound(C, result)
    BY <1>2, <1>4, <1>5, Zenon DEF IsSound
  <1>6. IsSound(C, Sorted(K, rank)) /\ IsSound(C, SortedByScore(K, rank))
    BY <1>3, <1>5, SortedFacts
  <1>. QED
    BY <1>6 DEF K

\* When no two scores are equal, ranks do not matter.
LEMMA ScoresDecide ==
  ASSUME NEW C, Decodable(C), \A c, d \in C : c # d => c.score # d.score,
         NEW rank \in Ranks(C), NEW other \in Ranks(C)
  PROVE  SortedByScore(Kept(C, rank), rank) = Sorted(Kept(C, other), other)
  <1>. DEFINE K == Kept(C, rank)
  <1>1. C \subseteq Cands /\ IsFiniteSet(C)
    BY DEF Decodable
  <1>2. \A a \in C : a.score \in Nat /\ a.class \in Nat /\ rank[a] \in Nat /\ other[a] \in Nat
    BY <1>1 DEF Cands, Ranks
  <1>3. \A a, b \in C : /\ Before(rank, a, b) <=> a.score > b.score
                        /\ Before(other, a, b) <=> a.score > b.score
                        /\ Ahead(rank, a, b) <=> a.score > b.score
    BY <1>2 DEF Before, Ahead
  <1>4. K \in SUBSET C /\ IsKept(C, rank, K)
    BY <1>1, KeptFacts
  <1>. HIDE DEF K
  <1>5. IsKept(C, other, K)
    BY <1>3, <1>4 DEF IsKept
  <1>6. K = Kept(C, other)
    BY <1>1, <1>4, <1>5, KeptFacts
  <1>7. \A c \in K : {k \in K : Ahead(rank, k, c)} = {k \in K : Before(other, k, c)}
    BY <1>3, <1>4
  <1>8. SortedByScore(K, rank) = Sorted(K, other)
    BY <1>7, Zenon DEF SortedByScore, Sorted
  <1>. QED
    BY <1>6, <1>8 DEF K

\* What holds of the decoded of an output.
LEMMA DecodedFacts ==
  ASSUME NEW C, Decodable(C)
  PROVE  /\ \A result \in ClassAwareNms(C) \cup {DecodeYoloOutput(C), ApplyNms(C)} :
               IsSound(C, result)
         /\ DecodeYoloOutput(C) = ApplyNms(C)
         /\ \E result \in ClassAwareNms(C) : DOMAIN result = DOMAIN DecodeYoloOutput(C)
         /\ (\A c, d \in C : c # d => c.score # d.score) =>
                ClassAwareNms(C) = {DecodeYoloOutput(C)}
  <1>. DEFINE rank == ByIndex(C)
              Given(r) == SortedByScore(Kept(C, r), r)
  <1>1. C \subseteq Cands /\ IsFiniteSet(C)
    BY DEF Decodable
  <1>2. rank \in PythonRanks(C) /\ PythonRanks(C) \subseteq Ranks(C)
    BY RanksOfBoth
  <1>3. \A r \in Ranks(C) : KeptByClass(C, r) = Kept(C, r)
    BY <1>1, ByClassIsAtOnce
  <1>4. ClassAwareNms(C) = {Given(r) : r \in PythonRanks(C)}
    <2>1. \A r \in PythonRanks(C) : SortedByScore(KeptByClass(C, r), r) = Given(r)
      BY <1>2, <1>3
    <2>. HIDE DEF Given
    <2>. QED
      BY <2>1 DEF ClassAwareNms
  <1>. HIDE DEF rank
  <1>5. DecodeYoloOutput(C) = Sorted(Kept(C, rank), rank)
    BY <1>2, <1>3, Zenon DEF DecodeYoloOutput, rank
  <1>6. ApplyNms(C) = Sorted(Kept(C, rank), rank)
    BY DEF ApplyNms, rank
  <1>7. \A r \in Ranks(C) : IsSound(C, Sorted(Kept(C, r), r)) /\ IsSound(C, Given(r))
    BY ResultsAreSound
  <1>8. DOMAIN Given(rank) = DOMAIN DecodeYoloOutput(C)
    BY <1>5 DEF Sorted, SortedByScore
  <1>9. ASSUME \A c, d \in C : c # d => c.score # d.score
        PROVE  \A r \in PythonRanks(C) : Given(r) = DecodeYoloOutput(C)
    BY <1>2, <1>5, <1>9, ScoresDecide
  <1>. HIDE DEF Given
  <1>10. \A result \in ClassAwareNms(C) : IsSound(C, result)
    BY <1>2, <1>4, <1>7
  <1>11. IsSound(C, DecodeYoloOutput(C)) /\ DecodeYoloOutput(C) = ApplyNms(C)
    BY <1>2, <1>5, <1>6, <1>7
  <1>12. Given(rank) \in ClassAwareNms(C)
    BY <1>2, <1>4
  <1>13. (\A c, d \in C : c # d => c.score # d.score) => ClassAwareNms(C) = {DecodeYoloOutput(C)}
    BY <1>2, <1>4, <1>9
  <1>. QED
    BY <1>8, <1>10, <1>11, <1>12, <1>13

\* What was decoded last.
OutputInv ==
  Postprocessed =>
    /\ output \in Outputs
    /\ LET C == Candidates(output, Shown)
       IN  decoded = [candidates |-> C, results |-> ClassAwareNms(C),
                      cpp |-> DecodeYoloOutput(C), nms |-> ApplyNms(C)]

\* Only the results of another output take their place.
LEMMA StepOutput == OutputInv /\ [DecodingNext]_decodingVars => OutputInv'
  <1>. SUFFICES ASSUME OutputInv, [DecodingNext]_decodingVars PROVE OutputInv'
    OBVIOUS
  <1>1. CASE UNCHANGED decodingVars
    <2>1. shape' = shape /\ output' = output /\ decoded' = decoded
      BY <1>1 DEF decodingVars
    <2>. QED
      BY <2>1 DEF OutputInv, Postprocessed
  <1>2. CASE LetterboxImage
    <2>1. PICK a, b : decoded' = [python |-> a, cpp |-> b]
      BY <1>2 DEF LetterboxImage
    <2>2. "results" \notin DOMAIN decoded'
      BY <2>1
    <2>. QED
      BY <2>2 DEF OutputInv, Postprocessed
  <1>3. CASE PostprocessOutput
    BY <1>3 DEF PostprocessOutput, OutputInv
  <1>. QED
    BY <1>1, <1>2, <1>3 DEF DecodingNext

\* What was decoded last is as the lemmas say.
LEMMA OutputFaithful ==
  ASSUME OutputInv
  PROVE  DecodingIsFaithful
  <1>. DEFINE C == Candidates(output, Shown)
  <1>. SUFFICES ASSUME Postprocessed PROVE SuppressionIsSound /\ BackendsDecodeAlike
    BY DEF DecodingIsFaithful, SuppressionIsSound, BackendsDecodeAlike
  <1>1. /\ decoded.candidates = C /\ decoded.results = ClassAwareNms(C)
        /\ decoded.cpp = DecodeYoloOutput(C) /\ decoded.nms = ApplyNms(C)
        /\ output \in Outputs
    BY DEF OutputInv
  <1>2. Decodable(C)
    BY <1>1, OutputsAreRead, CandidatesFacts DEF Lists, Entries, Boxes
  <1>. HIDE DEF C
  <1>3. SuppressionIsSound
    <2>1. \A result \in decoded.results \cup {decoded.cpp, decoded.nms} :
              IsSound(decoded.candidates, result)
      BY <1>1, <1>2, DecodedFacts
    <2>. QED
      BY <2>1, Zenon DEF SuppressionIsSound, IsSound
  <1>4. BackendsDecodeAlike
    <2>1. decoded.cpp = decoded.nms
      BY <1>1, <1>2, DecodedFacts
    <2>2. \E result \in decoded.results : DOMAIN result = DOMAIN decoded.cpp
      BY <1>1, <1>2, DecodedFacts
    <2>3. (\A c, d \in decoded.candidates : c # d => c.score # d.score) =>
              decoded.results = {decoded.cpp}
      BY <1>1, <1>2, DecodedFacts
    <2>. QED
      BY <2>1, <2>2, <2>3, Zenon DEF BackendsDecodeAlike
  <1>. QED
    BY <1>3, <1>4

\* For every output of the network: what the suppression keeps does not overlap, is sorted
\* and lies in the image, and what it drops had to go; C++ gives the detections that Python
\* gives, by class or at once, and in the same order unless scores are equal
\* (class_aware_nms, decode_yolo_output, apply_nms).
THEOREM DecodingAlwaysFaithful == Spec => []DecodingIsFaithful
  <1>1. Init => OutputInv
    BY DEF Init, DecodingInit, OutputInv, Postprocessed
  <1>2. OutputInv /\ [Next]_vars => OutputInv'
    <2>1. [Next]_vars => [DecodingNext]_decodingVars
      BY DEF Next, vars
    <2>. QED
      BY <2>1, StepOutput
  <1>3. OutputInv => DecodingIsFaithful
    BY OutputFaithful
  <1>. QED
    BY <1>1, <1>2, <1>3, PTL DEF Spec
=============================================================================
