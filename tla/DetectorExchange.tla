--------------------------- MODULE DetectorExchange ---------------------------
(***************************************************************************)
(* The settings of the detector, from the settings view to the store and   *)
(* from there, at the start of the next inspection, to the service that    *)
(* inspects (config/detector_settings.py, detector_backend_factory.py, the *)
(* settings view and view model, and InspectionViewModel).                 *)
(*                                                                         *)
(* Settings are a backend, an engine, and an option for all those that the *)
(* view does not show.  The user may edit the inputs of the view at any    *)
(* time, so that they are chosen when they are read.  The thread of an     *)
(* inspection (InspectionRun) only keeps its service here.                 *)
(***************************************************************************)
EXTENDS Naturals

CONSTANTS
    Engines,    \* the paths of engines that the user knows
    Options,    \* what the hidden options may be
    Default,    \* the option that replaces one that makes no sense
    Junk,       \* what a store may hold and the program does not know
    MaxServices,\* bound: the services ever created
    None

ASSUME ServicesAreCounted == MaxServices \in Nat \ {0}
ASSUME DefaultIsOption == Default \in Options /\ Junk \notin Options

VARIABLES
    files,      \* the engines that exist
    store,      \* what QSettings holds
    known,      \* InspectionViewModel.detector_settings
    service,    \* InspectionViewModel.inspection_service: its number
    from,       \* the settings it was created from, None for the first one
    open,       \* the services that have not been closed
    unclosed,   \* those whose close() raised
    active,     \* _active_detector_settings
    run         \* the service of the running thread, 0 for none

exchangeVars == <<files, store, known, service, from, open, unclosed, active, run>>
owned == <<service, from, open, unclosed, active>>

Labels == {"pytorch", "onnx", "tensorrt"}
Settings == [backend : Labels, engine : Engines, option : Options]
Stored == [backend : Labels \cup {Junk}, engine : Engines, option : Options \cup {Junk}]

ASSUME NoneIsNoSettings == None \notin Settings

\* load_detector_settings: what makes no sense is replaced.
LoadDetectorSettings(raw) ==
    [raw EXCEPT !.backend = IF @ \in Labels THEN @ ELSE "pytorch",
                !.option = IF @ \in Options THEN @ ELSE Default]

\* validate_tensorrt_settings
Valid(settings) == settings.backend = "tensorrt" => settings.engine \in files

ExchangeInit ==
    /\ files \in SUBSET Engines
    /\ store \in Stored
    /\ known = LoadDetectorSettings(store)
    /\ service = 1 /\ from = None
    /\ open = {1} /\ unclosed = {}
    /\ active = None
    /\ run = 0

\* Engines are built and removed outside the program.
ChangeFiles ==
    /\ files' \in SUBSET Engines
    /\ UNCHANGED <<store, known, owned, run>>

\* _settings_from_inputs: the hidden options are read from the store.
SettingsFromInputs(backend, engine) ==
    [backend |-> backend, engine |-> engine,
     option |-> LoadDetectorSettings(store).option]

\* _save and save_detector_settings; settings that are not valid are refused.
Save ==
    /\ \E b \in Labels, e \in Engines :
           /\ Valid(SettingsFromInputs(b, e))
           /\ store' = SettingsFromInputs(b, e)
    /\ UNCHANGED <<files, known, owned, run>>

\* The label of the inspection view is written anew.
BackendDisplayText ==
    /\ known' = LoadDetectorSettings(store)
    /\ UNCHANGED <<files, store, owned, run>>

\* Mutated form of InForce: the settings that the view model read last.
InForceKnown(settings) == settings = known

\* Whether the service was created from these settings.
InForce(settings) == settings = active

\* The old service is closed after the new one is in its place.
CloseOld(raises) ==
    IF raises
    THEN open' = open \cup {service'} /\ unclosed' = unclosed \cup ({service} \cap open)
    ELSE open' = (open \ {service}) \cup {service'} /\ unclosed' = unclosed \ {service}

\* The files are gone, or vanish between the two looks at them: nothing changes.
CreateFails(settings) == settings.backend = "tensorrt" /\ UNCHANGED owned

\* The close of the old service may raise.
Create(settings, raises) ==
    /\ Valid(settings)
    /\ service < MaxServices /\ service' = service + 1
    /\ from' = settings /\ active' = settings
    /\ CloseOld(raises)

\* start_auto_inspection, which applies the settings of the store.  It raises if
\* they cannot be, and also if the old service could not be closed.
Start ==
    /\ run = 0
    /\ known' = LoadDetectorSettings(store)
    /\ \/ InForce(known') /\ UNCHANGED owned /\ run' = service
       \/ ~InForce(known') /\ CreateFails(known') /\ UNCHANGED run
       \/ \E raises \in BOOLEAN :
              /\ ~InForce(known') /\ Create(known', raises)
              /\ run' = IF raises THEN 0 ELSE service'
    /\ UNCHANGED <<files, store>>

\* _cleanup_thread
RunEnds ==
    /\ run # 0 /\ run' = 0
    /\ UNCHANGED <<files, store, known, owned>>

\* Mutated form of ForgetSettings: the settings remain in force.
KeepSettings == UNCHANGED active

\* After a shutdown the next start creates a service.
ForgetSettings == active' = None

\* shutdown, refused while an inspection runs; an exception leaves the settings.
Shutdown ==
    /\ run = 0
    /\ \/ /\ open' = open \ {service} /\ unclosed' = unclosed \ {service}
          /\ ForgetSettings
       \/ unclosed' = unclosed \cup ({service} \cap open) /\ UNCHANGED <<open, active>>
    /\ UNCHANGED <<files, store, known, service, from, run>>

ExchangeNext ==
    ChangeFiles \/ Save \/ BackendDisplayText \/ Start \/ RunEnds \/ Shutdown

ExchangeSpec == ExchangeInit /\ [][ExchangeNext]_exchangeVars

-----------------------------------------------------------------------------
\* The settings have their types, whatever the store held.
ExchangeTypeOK ==
    /\ files \subseteq Engines /\ store \in Stored /\ known \in Settings
    /\ from \in Settings \cup {None} /\ active \in Settings \cup {None}
    /\ service \in 1 .. MaxServices /\ run \in 0 .. MaxServices
    /\ open \subseteq 1 .. MaxServices /\ unclosed \subseteq open

\* However settings are saved and starts fail, an inspection runs on the service
\* of the view model, which has not been closed.
ServiceInUseIsOpen == run # 0 => run = service /\ run \in open

\* The text of the settings view: saved settings apply from the next inspection.
RunUsesStoredSettings ==
    [][run = 0 /\ run' # 0 => from' = LoadDetectorSettings(store)]_exchangeVars

\* Saving in the view changes none of the options that the view does not show.
HiddenOptionsSurvive ==
    [][LoadDetectorSettings(store').option = LoadDetectorSettings(store).option]_exchangeVars

\* A service that was replaced is closed, unless its close raised.
OldServicesAreClosed == open \subseteq unclosed \cup {service}

\* The settings that are in force are those of the service, also after a start
\* that failed.
ActiveTellsService == active # None => from = active /\ service \in open

\* Through all saves, starts, failures and shutdowns the view model has one
\* service that is in use and knows what it was made of.
ExchangeInv ==
    /\ ExchangeTypeOK /\ ServiceInUseIsOpen
    /\ OldServicesAreClosed /\ ActiveTellsService

\* Saved settings are what runs, the ones the view does not show included.
SettingsTakeEffect == RunUsesStoredSettings /\ HiddenOptionsSurvive
=============================================================================
