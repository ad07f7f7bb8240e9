--------------------------- MODULE SubscribeRequest ---------------------------
(***************************************************************************)
(* NewSubscribeRequest (src/unnamed/part_001:279-334): the builder that    *)
(* turns SubscribeOptions into a gnmi SubscribeRequest.  It resolves the   *)
(* mode and the stream mode by upper-casing the caller's strings, parses   *)
(* the prefix and then every path in order with the path-parsing           *)
(* collaborator (utils.ParseGNMIElements, not part of this repository),    *)
(* and returns at the first error.                                         *)
(*                                                                         *)
(* A caller's string is a word and a letter case: ToUpper keeps the word   *)
(* and makes the case upper, and a gnmi enum name is its word in upper    *)
(* case.  A path is a model value; the collaborator either parses it or    *)
(* fails.  The state is one build: the options given and the result.      *)
(***************************************************************************)
EXTENDS Naturals, Sequences

CONSTANTS
    Words,       \* the words a caller may type as a mode or stream mode
    PathStrs,    \* path strings a caller may give
    BadPaths,    \* those the path parser rejects
    Origins,     \* origin strings
    Intervals,   \* sample and heartbeat intervals
    MaxPaths     \* the longest list of subscribed paths considered

ASSUME SubscribeAssumption ==
    /\ {"", "ONCE", "POLL", "STREAM", "ON_CHANGE", "SAMPLE", "TARGET_DEFINED"} \subseteq Words
    /\ BadPaths \subseteq PathStrs
    /\ MaxPaths \in Nat

Cases == {"upper", "lower", "mixed"}

\* A string as the caller wrote it.
Strings == [word: Words, case: Cases]

\* strings.ToUpper.
ToUpper(s) == [s EXCEPT !.case = "upper"]

\* The String() of a gnmi enum value: its name in upper case.
EnumName(w) == [word |-> w, case |-> "upper"]

\* Paths lists of at most MaxPaths elements.
PathLists == UNION {[1..n -> PathStrs] : n \in 0..MaxPaths}

\* SubscribeOptions: Paths, Prefix, Mode, StreamMode, UpdatesOnly, Origin,
\* SampleInterval and HeartbeatInterval.
Options ==
    [paths: PathLists, prefix: PathStrs, mode: Strings, streamMode: Strings,
     updatesOnly: BOOLEAN, origin: Origins, sample: Intervals, heartbeat: Intervals]

\* The errors a build can return: the untyped error fmt.Errorf makes, and
\* the error of the path parser.
NoError == "none"
Errors == {"fmtError", "parseError"}

\* utils.ParseGNMIElements (spec_modelled): a gnmi Path with an empty
\* origin, or a parse error.
ParseGNMIElements(p) ==
    IF p \in BadPaths THEN [err |-> "parseError", path |-> NoError]
    ELSE [err |-> NoError, path |-> [elem |-> p, origin |-> ""]]

Paths == [elem: PathStrs, origin: Origins \cup {""}]
Subscriptions ==
    [path: Paths, mode: {"ON_CHANGE", "SAMPLE", "TARGET_DEFINED"},
     sample: Intervals, heartbeat: Intervals]
Requests ==
    [mode: {"ONCE", "POLL", "STREAM"}, updatesOnly: BOOLEAN, prefix: Paths,
     subs: Seq(Subscriptions)]

\* A build that failed: no request, only the error.
Failure(e) == [err |-> e, req |-> NoError]

\* A result: a failure with its error, or a request.  Only results of the
\* same kind are compared, since a request and NoError are of different
\* types.
IsResult(r) ==
    \/ r.err \in Errors /\ r = Failure(r.err)
    \/ r.err = NoError /\ r \in [err: {NoError}, req: Requests]

\* Mutant of modeOf: the default branch passes the caller's word through
\* instead of returning an error.
modeOfPassThrough(s) ==
    LET u == ToUpper(s) IN
        CASE u = EnumName("ONCE") -> "ONCE"
          [] u = EnumName("POLL") -> "POLL"
          [] u = EnumName("") \/ u = EnumName("STREAM") -> "STREAM"
          [] OTHER -> u.word

\* Mutant of modeOf: the empty string is not defaulted to STREAM.
modeOfNoDefault(s) ==
    LET u == ToUpper(s) IN
        CASE u = EnumName("ONCE") -> "ONCE"
          [] u = EnumName("POLL") -> "POLL"
          [] u = EnumName("STREAM") -> "STREAM"
          [] OTHER -> NoError

\* The first switch: ONCE, POLL, or STREAM for "" and STREAM; NoError
\* stands for the default branch, which returns an error.
modeOf(s) ==
    LET u == ToUpper(s) IN
        CASE u = EnumName("ONCE") -> "ONCE"
          [] u = EnumName("POLL") -> "POLL"
          [] u = EnumName("") \/ u = EnumName("STREAM") -> "STREAM"
          [] OTHER -> NoError

\* Mutant of streamModeOf: the case of the caller's string is kept.
streamModeOfCaseSensitive(s) ==
    CASE s = EnumName("ON_CHANGE") -> "ON_CHANGE"
      [] s = EnumName("SAMPLE") -> "SAMPLE"
      [] s = EnumName("") \/ s = EnumName("TARGET_DEFINED") -> "TARGET_DEFINED"
      [] OTHER -> NoError

\* The second switch: ON_CHANGE, SAMPLE, or TARGET_DEFINED for "" and
\* TARGET_DEFINED.
streamModeOf(s) ==
    LET u == ToUpper(s) IN
        CASE u = EnumName("ON_CHANGE") -> "ON_CHANGE"
          [] u = EnumName("SAMPLE") -> "SAMPLE"
          [] u = EnumName("") \/ u = EnumName("TARGET_DEFINED") -> "TARGET_DEFINED"
          [] OTHER -> NoError

\* The loop over subscribeOptions.Paths: parse path i, stop at the first
\* error, and store the Subscription made by sub at index i.
subscriptionsLoop(o, sub(_)) ==
    LET n == Len(o.paths)
        loop[i \in 0..n] ==
            IF i = 0 THEN [err |-> NoError, subs |-> <<>>]
            ELSE LET prev == loop[i - 1]
                     g == ParseGNMIElements(o.paths[i])
                 IN  IF prev.err # NoError THEN prev
                     ELSE IF g.err # NoError THEN [err |-> g.err, subs |-> prev.subs]
                     ELSE [err |-> NoError, subs |-> Append(prev.subs, sub(g.path))]
    IN loop[n]

\* Mutant of subscriptionsOf: the origin is not copied onto the paths.
subscriptionsOfNoOrigin(o, sm) ==
    subscriptionsLoop(o, LAMBDA path :
        [path |-> path, mode |-> sm, sample |-> o.sample, heartbeat |-> o.heartbeat])

\* Mutant of subscriptionsOf: the sample and heartbeat intervals are
\* swapped.
subscriptionsOfSwapped(o, sm) ==
    subscriptionsLoop(o, LAMBDA path :
        [path |-> [path EXCEPT !.origin = o.origin], mode |-> sm,
         sample |-> o.heartbeat, heartbeat |-> o.sample])

\* The body of the loop: the parsed path gets the Origin, and the
\* Subscription the stream mode and both intervals.
subscriptionsOf(o, sm) ==
    subscriptionsLoop(o, LAMBDA path :
        [path |-> [path EXCEPT !.origin = o.origin], mode |-> sm,
         sample |-> o.sample, heartbeat |-> o.heartbeat])

\* NewSubscribeRequest: the two switches, the prefix, the paths, in that
\* order, each returning its error at once (a chain of IFs: the first
\* failing check decides, as the early returns do).
NewSubscribeRequest(o) ==
    LET m == modeOf(o.mode)
        sm == streamModeOf(o.streamMode)
        pre == ParseGNMIElements(o.prefix)
        loop == subscriptionsOf(o, sm)
    IN  IF m = NoError THEN Failure("fmtError")
        ELSE IF sm = NoError THEN Failure("fmtError")
        ELSE IF pre.err # NoError THEN Failure(pre.err)
        ELSE IF loop.err # NoError THEN Failure(loop.err)
        ELSE [err |-> NoError,
              req |-> [mode |-> m, updatesOnly |-> o.updatesOnly,
                       prefix |-> pre.path, subs |-> loop.subs]]

VARIABLES
    opts,     \* the SubscribeOptions given to NewSubscribeRequest
    result    \* what it returned, or Pending before it returns

vars == <<opts, result>>

Pending == [err |-> "pending", req |-> NoError]

\* NewSubscribeRequest has returned.
Returned == result.err # "pending"

TypeOK ==
    /\ opts \in Options
    /\ ~Returned => result = Pending
    /\ Returned => IsResult(result)

Init ==
    /\ opts \in Options
    /\ result = Pending

\* The call of NewSubscribeRequest; it returns once.
Build ==
    /\ ~Returned
    /\ result' = NewSubscribeRequest(opts)
    /\ UNCHANGED opts

Spec == Init /\ [][Build]_vars

-----------------------------------------------------------------------------
(***************************************************************************)
(* The builder of spec section 4.5, written from its text: modes compared  *)
(* case-insensitively, empty strings defaulted, any unknown mode or        *)
(* unparsable path failing the whole build with InvalidArgument or the    *)
(* parser's error, and otherwise one subscription per path, in order.     *)
(***************************************************************************)

ModeNames == {"ONCE", "POLL", "STREAM"}
StreamModeNames == {"ON_CHANGE", "SAMPLE", "TARGET_DEFINED"}

\* Equal up to letter case.
SameIgnoringCase(s, w) == s.word = w

Resolve(s, names, dflt) ==
    IF SameIgnoringCase(s, "") THEN dflt
    ELSE IF \E w \in names : SameIgnoringCase(s, w)
         THEN CHOOSE w \in names : SameIgnoringCase(s, w)
         ELSE NoError

\* What section 4.5 says the build returns, with its error categories.
Reference(o) ==
    LET m == Resolve(o.mode, ModeNames, "STREAM")
        sm == Resolve(o.streamMode, StreamModeNames, "TARGET_DEFINED")
        bad == {o.prefix} \cup {o.paths[i] : i \in DOMAIN o.paths}
    IN  IF m = NoError \/ sm = NoError THEN Failure("InvalidArgument")
        ELSE IF bad \cap BadPaths # {} THEN Failure("parseError")
        ELSE [err |-> NoError,
              req |-> [mode |-> m, updatesOnly |-> o.updatesOnly,
                       prefix |-> [elem |-> o.prefix, origin |-> ""],
                       subs |-> [i \in DOMAIN o.paths |->
                                   [path |-> [elem |-> o.paths[i], origin |-> o.origin],
                                    mode |-> sm, sample |-> o.sample,
                                    heartbeat |-> o.heartbeat]]]]

\* Whether a result is a failure, whatever its error.
Failed(r) == r.err # NoError

\* NewSubscribeRequest fails exactly when section 4.5 says the build fails,
\* and otherwise returns the request it describes: modes resolved without
\* regard to case, defaults for empty strings, one subscription per path in
\* the order given, each with the stream mode, intervals and origin.
BuildMatchesReference ==
    LET ref == Reference(opts) IN
        Returned =>
        /\ Failed(result) <=> Failed(ref)
        /\ ~Failed(result) => result.req = ref.req

\* An unknown mode or stream mode is reported as InvalidArgument, the
\* category section 7 gives it, so a caller can tell a bad request from a
\* transport failure.
ModeErrorsAreInvalidArgument ==
    (Returned /\ Reference(opts).err = "InvalidArgument")
        => result.err = "InvalidArgument"

=============================================================================
