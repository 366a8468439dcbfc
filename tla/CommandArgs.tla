---------------------------- MODULE CommandArgs ----------------------------
(***************************************************************************)
(* parse_compute_args: from the arguments of `sim compute` to a command, or *)
(* Refused.  A token is a string; what its characters decide is given by    *)
(* the sets a token belongs to.  The output mode, which only a renderer     *)
(* reads, is left out: --json is accepted and changes nothing.              *)
(***************************************************************************)
EXTENDS Outcomes, Naturals, Sequences, SequencesExt

CONSTANTS Dashed,        \* tokens that start with a dash
          Selectors,     \* tokens checked_selector accepts
          Capabilities,  \* tokens checked_capability accepts
          Commits,       \* token -> commit in lower case, of forty hexadecimal digits
          Paths,         \* tokens checked_path accepts
          Numbers        \* token -> number, of the tokens that parse as one

\* parse::<u64>, parse::<usize>
ASSUME NumbersAssumption == \A token \in DOMAIN Numbers : Numbers[token] \in Nat

Checked(token, policy) == IF token \in policy THEN token ELSE Refused

MaxDevices == 64
MaxProfileBytes == 64 * 1024

InPolicy(token, max) == token \in DOMAIN Numbers /\ Numbers[token] \in 1..max

-----------------------------------------------------------------------------
(* The loop of every verb.  Take is given the value of an option, Word any  *)
(* token that is not an option with a value; both return the new request.   *)

With(request, field, value) ==
  IF value = Refused THEN Refused ELSE [request EXCEPT ![field] = value]

ParseOptions(args, request, valued, Take(_, _, _), Word(_, _)) ==
  LET Step(at, token) ==
        IF at.request = Refused THEN at
        ELSE IF at.awaits = None /\ token \in valued THEN [at EXCEPT !.awaits = token]
        ELSE [awaits |-> None,
              request |-> IF at.awaits = None THEN Word(at.request, token)
                          ELSE IF token \in Dashed THEN Refused
                          ELSE Take(at.request, at.awaits, token)]
      end == FoldLeft(Step, [awaits |-> None, request |-> request], args)
  IN IF end.awaits = None THEN end.request ELSE Refused

\* A selector may be given once.
SelectionWord(request, token) ==
  IF token = "--json" THEN request
  ELSE IF token \in Dashed \/ request.selector # None THEN Refused
  ELSE With(request, "selector", Checked(token, Selectors))

SelectionValue(request, option, token) ==
  IF InPolicy(token, MaxDevices) THEN [request EXCEPT !.maxDevices = Numbers[token]] ELSE Refused

ParseSelection(args) ==
  ParseOptions(args, [selector |-> None, maxDevices |-> 16], {"--max-devices"},
               SelectionValue, SelectionWord)

ProfileDefaults ==
  [action |-> "list", key |-> None, adapter |-> "modeled-adapter", driver |-> "modeled-driver",
   backend |-> "modeled", now |-> 0, maxProfileBytes |-> 8192]

\* The last of several actions is the one taken.
ProfileWord(request, token) ==
  IF token \in {"list", "read", "save"} THEN [request EXCEPT !.action = token]
  ELSE IF token = "--json" THEN request ELSE Refused

LabelOptions ==
  [option \in {"--key", "--adapter", "--driver", "--backend"} |->
     IF option = "--key" THEN "key" ELSE IF option = "--adapter" THEN "adapter"
     ELSE IF option = "--driver" THEN "driver" ELSE "backend"]

ProfileValue(request, option, token) ==
  IF option \in DOMAIN LabelOptions
  THEN With(request, LabelOptions[option], Checked(token, Selectors))
  ELSE IF option = "--now"
  THEN IF token \in DOMAIN Numbers THEN [request EXCEPT !.now = Numbers[token]] ELSE Refused
  ELSE IF InPolicy(token, MaxProfileBytes)
  THEN [request EXCEPT !.maxProfileBytes = Numbers[token]] ELSE Refused

ParseProfile(args) ==
  ParseOptions(args, ProfileDefaults, DOMAIN LabelOptions \cup {"--now", "--max-profile-bytes"},
               ProfileValue, ProfileWord)

AcceptanceActions == {"capture", "verify", "import"}

AcceptanceOptions == {"--manifest", "--source", "--target", "--output"}

AcceptanceValue(request, option, token) ==
  CASE option = "--source" ->
         With(request, "source", IF token \in DOMAIN Commits THEN Commits[token] ELSE Refused)
    [] option = "--target" -> With(request, "target", Checked(token, Capabilities))
    [] option = "--manifest" -> With(request, "manifest", Checked(token, Paths))
    [] option = "--output" -> With(request, "output", Checked(token, Paths))

AcceptanceWord(request, token) ==
  IF token \in Dashed \/ request.input # None THEN Refused
  ELSE With(request, "input", Checked(token, Paths))

\* What each action must be given, and nothing else of the rest.
Given(request) ==
  {field \in {"manifest", "target", "output", "input"} : request[field] # None}

AcceptanceShape(request) ==
  /\ request.source # None
  /\ Given(request) = IF request.action = "capture" THEN {"manifest", "target", "output"}
                      ELSE {"input"}

ParseAcceptance(args) ==
  IF args = << >> \/ Head(args) \notin AcceptanceActions THEN Refused
  ELSE LET request ==
             ParseOptions(Tail(args),
                          [action |-> Head(args), manifest |-> None, source |-> None,
                           target |-> None, output |-> None, input |-> None],
                          AcceptanceOptions, AcceptanceValue, AcceptanceWord)
       IN IF request = Refused THEN Refused
          ELSE IF AcceptanceShape(request) THEN request ELSE Refused

Recipe == "inspect-compute-device"

\* The last word is the recipe; any other than the one there is, is refused.
RecipeWord(request, token) ==
  IF token = "--json" THEN request
  ELSE IF token \in Dashed THEN Refused ELSE With(request, "id", Checked(token, Selectors))

ParseRecipe(args) ==
  LET request == ParseOptions(args, [id |-> Recipe], {}, LAMBDA r, o, t : r, RecipeWord) IN
  IF request = Refused THEN Refused ELSE IF request.id = Recipe THEN request ELSE Refused

-----------------------------------------------------------------------------

\* explain checks one profile: of a list it makes a read.
ParseExplain(args) ==
  LET request == ParseProfile(args) IN
  IF request = Refused THEN Refused
  ELSE [request EXCEPT !.action = IF @ = "list" THEN "read" ELSE @]

StripVerb(args) == IF args # << >> /\ Head(args) = "compute" THEN Tail(args) ELSE args

ParseComputeArgs(arguments) ==
  LET args == StripVerb(arguments)
      Verb(request) ==
        IF request = Refused THEN Refused ELSE [verb |-> Head(args), request |-> request]
  IN IF args = << >> \/ \E i \in DOMAIN args : args[i] \in {"--help", "-h"}
     THEN [verb |-> "help"]
     ELSE IF Head(args) \in {"devices", "probe"} THEN Verb(ParseSelection(Tail(args)))
     ELSE IF Head(args) = "profile" THEN Verb(ParseProfile(Tail(args)))
     ELSE IF Head(args) = "explain" THEN Verb(ParseExplain(Tail(args)))
     ELSE IF Head(args) = "recipe" THEN Verb(ParseRecipe(Tail(args)))
     ELSE IF Head(args) = "acceptance" THEN Verb(ParseAcceptance(Tail(args)))
     ELSE Refused
=============================================================================
