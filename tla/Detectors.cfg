SPECIFICATION Spec
CONSTANTS
    Models <- MCModels
    NoSession = NoSession
    Shapes <- MCShapes
    ImageSize = 16
    Outputs <- MCOutputs
    Shown <- MCShown
    ConfThreshold = 150
    IouThreshold = 500
    NotFinite = NotFinite
    Engines = {e1, e2}
    Options = {o1, o2}
    Default = o1
    Junk = Junk
    MaxServices = 3
    None = None
INVARIANTS
    AnswersAreChecked
    LetterboxIsFaithful
    DecodingIsFaithful
    ExchangeInv
PROPERTIES
    SettingsTakeEffect
CHECK_DEADLOCK FALSE
