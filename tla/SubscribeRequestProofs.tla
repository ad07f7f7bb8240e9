------------------------ MODULE SubscribeRequestProofs ------------------------
(***************************************************************************)
(* Proofs about NewSubscribeRequest for every vocabulary of words, paths   *)
(* and origins and every number of paths.  What the path loop computes is *)
(* an induction over the list of paths, which stays with TLC              *)
(* (BuildMatchesReference); what comes before the loop is proved here:   *)
(* both switches resolve a mode exactly as section 4.5's case-insensitive *)
(* resolution with its defaults, an unknown mode fails the build before   *)
(* any path is parsed, and a successful build carries the resolved mode,  *)
(* UpdatesOnly and the parsed prefix.                                     *)
(***************************************************************************)
EXTENDS SubscribeRequest, TLAPS

\* The state after the build: the result is the one NewSubscribeRequest
\* returns for the options.
Built ==
    /\ opts \in Options
    /\ result = Pending \/ result = NewSubscribeRequest(opts)

\* What the switches and the prefix parse decide, as section 4.5 says: an
\* unknown mode or stream mode fails the build whatever the paths; with
\* known modes an unparsable prefix fails it with the parser's error; and a
\* build that succeeds has the mode resolved without regard to case (STREAM
\* for the empty string), the caller's UpdatesOnly and the prefix parsed
\* with an empty origin.
HeaderMatchesReference ==
    LET m == Resolve(opts.mode, ModeNames, "STREAM")
        sm == Resolve(opts.streamMode, StreamModeNames, "TARGET_DEFINED")
    IN  Returned =>
        /\ m = NoError \/ sm = NoError => Failed(result)
        /\ m # NoError /\ sm # NoError /\ opts.prefix \in BadPaths =>
               result = Failure("parseError")
        /\ ~Failed(result) =>
               /\ result.req.mode = m
               /\ result.req.updatesOnly = opts.updatesOnly
               /\ result.req.prefix = [elem |-> opts.prefix, origin |-> ""]

-----------------------------------------------------------------------------
(* Lemmas about the two switches.                                          *)

\* strings.ToUpper of a caller's string is an enum's name exactly when the
\* string spells that name in any case.
LEMMA ToUpperMatches ==
    ASSUME NEW s \in Strings, NEW w
    PROVE  ToUpper(s) = EnumName(w) <=> s.word = w
BY DEF ToUpper, EnumName, Strings

\* The mode switch is section 4.5's case-insensitive resolution with STREAM
\* for the empty string, and the default branch its rejection.
LEMMA ModeOfResolves ==
    ASSUME NEW s \in Strings
    PROVE  modeOf(s) = Resolve(s, ModeNames, "STREAM")
<1>1. /\ ToUpper(s) = EnumName("ONCE") <=> s.word = "ONCE"
      /\ ToUpper(s) = EnumName("POLL") <=> s.word = "POLL"
      /\ ToUpper(s) = EnumName("") <=> s.word = ""
      /\ ToUpper(s) = EnumName("STREAM") <=> s.word = "STREAM"
  BY ToUpperMatches
<1>2. QED
  BY <1>1 DEF modeOf, Resolve, SameIgnoringCase, ModeNames, NoError

\* The same for the stream-mode switch, with TARGET_DEFINED as default.
LEMMA StreamModeOfResolves ==
    ASSUME NEW s \in Strings
    PROVE  streamModeOf(s) = Resolve(s, StreamModeNames, "TARGET_DEFINED")
<1>1. /\ ToUpper(s) = EnumName("ON_CHANGE") <=> s.word = "ON_CHANGE"
      /\ ToUpper(s) = EnumName("SAMPLE") <=> s.word = "SAMPLE"
      /\ ToUpper(s) = EnumName("") <=> s.word = ""
      /\ ToUpper(s) = EnumName("TARGET_DEFINED") <=> s.word = "TARGET_DEFINED"
  BY ToUpperMatches
<1>2. QED
  BY <1>1 DEF streamModeOf, Resolve, SameIgnoringCase, StreamModeNames, NoError

-----------------------------------------------------------------------------

LEMMA BuiltInvariant == Spec => []Built
<1>1. Init => Built
  BY DEF Init, Built
<1>2. Built /\ [Build]_vars => Built'
  BY DEF Built, Build, vars
<1>3. QED
  BY <1>1, <1>2, PTL DEF Spec

\* For every vocabulary and every number of paths, NewSubscribeRequest's
\* two switches and its prefix parse do what section 4.5 says: an unknown
\* mode in any case fails the build before a path is parsed, a bad prefix
\* fails it with the parser's error, and a request carries the resolved
\* mode, UpdatesOnly and the prefix (part_001:279-317).
THEOREM HeaderAsSpecified == Spec => []HeaderMatchesReference
<1>1. Built => HeaderMatchesReference
  <2> SUFFICES ASSUME Built, Returned
               PROVE  HeaderMatchesReference
    BY DEF HeaderMatchesReference
  <2> DEFINE o == opts
             m == Resolve(o.mode, ModeNames, "STREAM")
             sm == Resolve(o.streamMode, StreamModeNames, "TARGET_DEFINED")
  <2>1. result = NewSubscribeRequest(o)
    BY DEF Built, Returned, Pending
  <2>2. modeOf(o.mode) = m /\ streamModeOf(o.streamMode) = sm
    <3>1. o.mode \in Strings /\ o.streamMode \in Strings
      BY DEF Built, Options
    <3>2. QED
      BY <3>1, ModeOfResolves, StreamModeOfResolves
  <2>3. m = NoError \/ sm = NoError => Failed(result)
    BY <2>1, <2>2 DEF NewSubscribeRequest, Failure, Failed, NoError
  <2>4. m # NoError /\ sm # NoError /\ o.prefix \in BadPaths =>
          result = Failure("parseError")
    BY <2>1, <2>2 DEF NewSubscribeRequest, ParseGNMIElements, Failure, NoError
  <2>5. ~Failed(result) =>
          /\ result.req.mode = m
          /\ result.req.updatesOnly = o.updatesOnly
          /\ result.req.prefix = [elem |-> o.prefix, origin |-> ""]
    BY <2>1, <2>2 DEF NewSubscribeRequest, ParseGNMIElements, Failure, Failed, NoError
  <2>6. QED
    BY <2>3, <2>4, <2>5 DEF HeaderMatchesReference
<1>2. QED
  BY <1>1, BuiltInvariant, PTL
=============================================================================
