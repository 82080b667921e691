--------------------------- MODULE ServicesProofs ---------------------------
(***************************************************************************)
(* The services together: the instance that TLC checks implements every one *)
(* of them, so that what is proved of a service alone holds of the whole,   *)
(* for every value of the constants.                                        *)
(***************************************************************************)
EXTENDS MCServices, DeviceProofs, UpstreamProofs, AgentChatProofs, AutofixProofs

LEMMA Parts ==
  Init => /\ SshInit /\ ChatInit /\ TargetInit /\ TrackerInit /\ TerminalInit
          /\ AutofixInit
BY DEF Init

LEMMA StepOfOne ==
  ASSUME [Next]_serviceVars
  PROVE  /\ [SshNext]_sshVars /\ [ChatNext]_chatVars /\ [TargetNext]_targetVars
         /\ [TrackerNext]_trackerVars /\ [AutofixNext]_autofixVars
         /\ [TerminalNext]_terminalVars /\ [ParserNext]_parserVars
<1>1. CASE UNCHANGED serviceVars
  BY <1>1 DEF serviceVars
<1>2. CASE Next
  BY <1>2, Zenon DEF Next, Only, Others
<1> QED
  BY <1>1, <1>2

\* A behaviour of the services is a behaviour of each of them: the steps of the
\* others leave its state alone.
THEOREM ServicesImplementEach ==
  Spec => /\ SshSpec /\ ChatSpec /\ TargetSpec /\ TrackerSpec /\ AutofixSpec
          /\ TerminalSpec
BY Parts, StepOfOne, PTL
   DEF Spec, SshSpec, ChatSpec, TargetSpec, TrackerSpec, AutofixSpec, TerminalSpec

\* The parser starts with no source at all where another service is looked at,
\* which its own specification does not allow; its invariant holds there too.
LEMMA ServicesParser == Spec => []ParserInv
<1>1. ASSUME Init PROVE ParserInv
  <2>1. CASE focus = "parser"
    BY <1>1, <2>1, ParserStart DEF Init
  <2>2. CASE focus # "parser"
    <3>1. mailbox = <<>> /\ tracked = <<>> /\ series = {}
      BY <1>1, <2>2 DEF Init
    <3>2. <<>> \in Seq(Mails) /\ <<>> \in Seq(TrackedRows)
      OBVIOUS
    <3> QED
      BY <3>1, <3>2, FS_EmptySet DEF ParserInv, SeriesOK
  <2> QED
    BY <2>1, <2>2
<1>2. ParserInv /\ [Next]_serviceVars => ParserInv'
  BY StepOfOne, ParserStep
<1> QED
  BY <1>1, <1>2, PTL DEF Spec

\* Every state of the services has its type, however they take turns.
THEOREM ServicesTypes == Spec => []TypesOK
<1>1. /\ SshTypeOK /\ ChatTypeOK /\ TargetTypeOK /\ TrackerTypeOK
      /\ AutofixTypeOK /\ TerminalTypeOK
      => TypesOK
  BY DEF TypesOK
<1> QED
  BY <1>1, ServicesImplementEach, SshTypes, ChatTypes, TargetTypes, TrackerTypes, AutofixTypes,
     TerminalTypes, PTL

\* What each service promises of itself is true of all of them together.
THEOREM ServicesKeepPromises ==
  Spec => /\ [](SshLeakOnlyEarly /\ SshTabTruth /\ ChatRowsAgree)
          /\ [](TargetSettles /\ TargetRunIsTrue /\ TrackedOnce /\ HandStatusKept)
          /\ []AutofixSettles
          /\ [](ThreadsAreWhole /\ SummaryAddsUp)
          /\ []AliveMeansOwnPty
          /\ ChatForgetsFairly
BY ServicesImplementEach, LeakOnlyEarly, TabTellsTruth, RowsAgree, ForgetsOnlyFairly, Settles,
   RunIsTrue, OneRowPerUrl, HandWins, FixedStaysFixed, OwnPty,
   ServicesParser, ThreadsFollow, SumsFollow, PTL
=============================================================================
