------------------------ MODULE CliOperationsProofs ------------------------
(***************************************************************************)
(* Proofs about module CliOperations, for any servers, names and ids: what *)
(* the caller of an operation is told agrees with what was done, and it is *)
(* done to what was looked up.                                             *)
(*                                                                         *)
(* Of the five operations the proofs use only what every well-formed one   *)
(* has (WellFormed), except where a property is about one of them.         *)
(***************************************************************************)
EXTENDS CliOperations, FiniteSetTheorems, TLAPS

\* the variable a lookup fills
Yields(function, x) ==
    \/ function = "getActiveServerConnection" /\ x = "connectionID"
    \/ function \in {"getLocalUserID", "findUserByName"} /\ x = "userID"
    \/ function = "findChannelByName" /\ x = "channelID"
    \/ function = "isLocalUserMuted" /\ x = "isMuted"
    \/ function = "isLocalUserDeafened" /\ x = "isDeafened"

\* the variables that have a value before dependency i
Variables(o, i) ==
    ParameterNames(o.parameter) \cup {o.depends[k].name : k \in 1 .. (i - 1)}

\* An operation uses no variable that has no value yet, gives none a second one,
\* and depends on calls that change nothing.
WellFormed(o) ==
    /\ \A i, j \in DOMAIN o.parameter :
          o.parameter[i].name = o.parameter[j].name => i = j
    /\ \A i \in DOMAIN o.parameter :
          /\ o.parameter[i].name \in Fields
          /\ o.parameter[i].optional => o.parameter[i].default = EmptyString
    /\ o.parameter = <<>> <=> DOMAIN o.parameter = {}
    /\ Len(o.depends) \in 1 .. 3
    /\ \A i \in 1 .. Len(o.depends) :
          /\ Yields(o.depends[i].call.function, o.depends[i].name)
          /\ o.depends[i].name \notin Variables(o, i)
          /\ \A a \in DOMAIN o.depends[i].call.args :
                o.depends[i].call.args[a].var \in Variables(o, i)
    /\ \A a \in DOMAIN o.executes.args :
          o.executes.args[a].var \in Variables(o, Len(o.depends) + 1)

-----------------------------------------------------------------------------
(***************************************************************************)
(* The five operations.                                                    *)
(***************************************************************************)
LEMMA MoveWellFormed == WellFormed(move)
<1>1. /\ move.parameter = <<Required("user"), Required("channel"),
                            Optional("password", EmptyString)>>
      /\ Len(move.depends) = 3
      /\ move.depends[1] = activeConnection
      /\ move.depends[2].name = "userID"
      /\ move.depends[2].call =
            Call("findUserByName", [connection |-> Value("connectionID"),
                                    user_name  |-> Value("user")])
      /\ move.depends[3] = channelByName
      /\ move.executes = requestUserMove
  BY DEF move
<1>2. /\ DOMAIN move.parameter = 1 .. 3
      /\ move.parameter[1].name = "user" /\ ~move.parameter[1].optional
      /\ move.parameter[2].name = "channel" /\ ~move.parameter[2].optional
      /\ move.parameter[3].name = "password" /\ move.parameter[3].optional
      /\ move.parameter[3].default = EmptyString
  BY <1>1 DEF Required, Optional
<1>3. ParameterNames(move.parameter) = {"user", "channel", "password"}
  BY <1>2 DEF ParameterNames
<1>4. /\ activeConnection.name = "connectionID" /\ channelByName.name = "channelID"
      /\ activeConnection.call.function = "getActiveServerConnection"
      /\ DOMAIN activeConnection.call.args = {}
      /\ channelByName.call.function = "findChannelByName"
      /\ \A a \in DOMAIN channelByName.call.args :
            channelByName.call.args[a].var \in {"connectionID", "channel"}
  BY DEF activeConnection, channelByName, Call, Value
<1>5. /\ move.depends[2].call.function = "findUserByName"
      /\ \A a \in DOMAIN move.depends[2].call.args :
            move.depends[2].call.args[a].var \in {"connectionID", "user"}
  BY <1>1 DEF Call, Value
<1>6. \A a \in DOMAIN move.executes.args :
         move.executes.args[a].var \in {"connectionID", "userID", "channelID", "password"}
  BY <1>1 DEF requestUserMove, Call, Value
<1>7. /\ Variables(move, 1) = {"user", "channel", "password"}
      /\ Variables(move, 2) = Variables(move, 1) \cup {"connectionID"}
      /\ Variables(move, 3) = Variables(move, 2) \cup {"userID"}
      /\ Variables(move, 3 + 1) = Variables(move, 3) \cup {"channelID"}
  <2>1. move.depends[1].name = "connectionID" /\ move.depends[2].name = "userID"
        /\ move.depends[3].name = "channelID"
    BY <1>1, <1>4
  <2>2. 1 .. (1 - 1) = {} /\ 1 .. (2 - 1) = {1} /\ 1 .. (3 - 1) = {1, 2}
        /\ 1 .. (3 + 1 - 1) = {1, 2, 3}
    OBVIOUS
  <2> QED
    BY <1>3, <2>1, <2>2 DEF Variables
<1>8. /\ move.parameter # <<>>
      /\ \A i, j \in DOMAIN move.parameter :
            move.parameter[i].name = move.parameter[j].name => i = j
      /\ \A i \in DOMAIN move.parameter :
            /\ move.parameter[i].name \in Fields
            /\ move.parameter[i].optional => move.parameter[i].default = EmptyString
  BY <1>1, <1>2 DEF Fields
<1>9. ASSUME NEW i \in 1 .. 3
      PROVE  /\ Yields(move.depends[i].call.function, move.depends[i].name)
             /\ move.depends[i].name \notin Variables(move, i)
             /\ \A a \in DOMAIN move.depends[i].call.args :
                   move.depends[i].call.args[a].var \in Variables(move, i)
  <2>1. CASE i = 1
    BY <1>1, <1>4, <1>7, <2>1 DEF Yields
  <2>2. CASE i = 2
    BY <1>1, <1>5, <1>7, <2>2 DEF Yields
  <2>3. CASE i = 3
    BY <1>1, <1>4, <1>7, <2>3 DEF Yields
  <2> QED
    BY <2>1, <2>2, <2>3
<1> QED
  BY <1>1, <1>2, <1>6, <1>7, <1>8, <1>9 DEF WellFormed

LEMMA MoveLocalUserWellFormed == WellFormed(move_local_user)
<1>0. PICK o : o = move_local_user
  OBVIOUS
<1>1. /\ o.parameter = <<Required("channel"), Optional("password", EmptyString)>>
      /\ Len(o.depends) = 3
      /\ o.depends[1] = activeConnection
      /\ o.depends[2] = localUser
      /\ o.depends[3] = channelByName
      /\ o.executes = requestUserMove
  BY <1>0 DEF move_local_user
<1>2. /\ DOMAIN o.parameter = 1 .. 2
      /\ o.parameter[1].name = "channel"
      /\ ~o.parameter[1].optional
      /\ o.parameter[2].name = "password"
      /\ o.parameter[2].optional
      /\ o.parameter[2].default = EmptyString
  BY <1>1 DEF Required, Optional
<1>3. ParameterNames(o.parameter) = {"channel", "password"}
  BY <1>2 DEF ParameterNames
<1>4. /\ activeConnection.name = "connectionID" /\ channelByName.name = "channelID"
      /\ activeConnection.call.function = "getActiveServerConnection"
      /\ DOMAIN activeConnection.call.args = {}
      /\ channelByName.call.function = "findChannelByName"
      /\ \A a \in DOMAIN channelByName.call.args :
            channelByName.call.args[a].var \in {"connectionID", "channel"}
  BY DEF activeConnection, channelByName, Call, Value
<1>5. /\ localUser.name = "userID" /\ localUser.call.function = "getLocalUserID"
      /\ \A a \in DOMAIN localUser.call.args :
            localUser.call.args[a].var \in {"connectionID"}
  BY DEF localUser, Call, Value
<1>6. \A a \in DOMAIN o.executes.args :
         o.executes.args[a].var \in {"connectionID", "userID", "channelID", "password"}
  BY <1>1 DEF requestUserMove, Call, Value
<1>7. /\ Variables(o, 1) = {"channel", "password"}
      /\ Variables(o, 2) = Variables(o, 1) \cup {"connectionID"}
      /\ Variables(o, 3) = Variables(o, 2) \cup {"userID"}
      /\ Variables(o, 3 + 1) = Variables(o, 3) \cup {"channelID"}
  <2>1. o.depends[1].name = "connectionID" /\ o.depends[2].name = "userID"
        /\ o.depends[3].name = "channelID"
    BY <1>1, <1>4, <1>5
  <2>2. 1 .. (1 - 1) = {} /\ 1 .. (2 - 1) = {1} /\ 1 .. (3 - 1) = {1, 2}
        /\ 1 .. (3 + 1 - 1) = {1, 2, 3}
    OBVIOUS
  <2> QED
    BY <1>3, <2>1, <2>2 DEF Variables
<1>8. /\ o.parameter # <<>>
      /\ \A i, j \in DOMAIN o.parameter :
            o.parameter[i].name = o.parameter[j].name => i = j
      /\ \A i \in DOMAIN o.parameter :
            /\ o.parameter[i].name \in Fields
            /\ o.parameter[i].optional => o.parameter[i].default = EmptyString
  BY <1>1, <1>2 DEF Fields
<1>9. ASSUME NEW i \in 1 .. 3
      PROVE  /\ Yields(o.depends[i].call.function, o.depends[i].name)
             /\ o.depends[i].name \notin Variables(o, i)
             /\ \A a \in DOMAIN o.depends[i].call.args :
                   o.depends[i].call.args[a].var \in Variables(o, i)
  <2>1. CASE i = 1
    BY <1>1, <1>4, <1>7, <2>1 DEF Yields
  <2>2. CASE i = 2
    BY <1>1, <1>5, <1>7, <2>2 DEF Yields
  <2>3. CASE i = 3
    BY <1>1, <1>4, <1>7, <2>3 DEF Yields
  <2> QED
    BY <2>1, <2>2, <2>3
<1> QED
  BY <1>0, <1>1, <1>2, <1>6, <1>7, <1>8, <1>9 DEF WellFormed

LEMMA GetLocalUserNameWellFormed == WellFormed(get_local_user_name)
BY DEF WellFormed, get_local_user_name, activeConnection, localUser, Call, Value,
       Yields, Variables, ParameterNames

LEMMA TogglesWellFormed ==
    WellFormed(toggle_local_user_mute) /\ WellFormed(toggle_local_user_deaf)
BY DEF WellFormed, toggle_local_user_mute, toggle_local_user_deaf, Call, Value,
       Negation, Yields, Variables, ParameterNames

LEMMA OperationNames ==
    /\ DOMAIN Operations = {"move", "move_local_user", "get_local_user_name",
                            "toggle_local_user_mute", "toggle_local_user_deaf"}
    /\ Operations["move"] = move
    /\ Operations["move_local_user"] = move_local_user
    /\ Operations["get_local_user_name"] = get_local_user_name
    /\ Operations["toggle_local_user_mute"] = toggle_local_user_mute
    /\ Operations["toggle_local_user_deaf"] = toggle_local_user_deaf
BY DEF Operations

LEMMA OperationsWellFormed == \A name \in DOMAIN Operations : WellFormed(Operations[name])
BY OperationNames, MoveWellFormed, MoveLocalUserWellFormed, GetLocalUserNameWellFormed,
   TogglesWellFormed

-----------------------------------------------------------------------------
(***************************************************************************)
(* The inductive invariant.                                                *)
(***************************************************************************)
Width == UIntModulus \div 2

\* The variables of the operation have values of their types.
Typed ==
    \A x \in DOMAIN env :
        /\ x \in {"isMuted", "isDeafened"} => env[x] \in BOOLEAN
        /\ x = "connectionID" => env[x] \in Connections
        /\ x = "channelID" => env[x] \in ChannelIds
        /\ x = "userID" => env[x] \in -Width .. (Width - 1)
        /\ x \in Fields => env[x] \in Names \cup Passwords \cup {EmptyString}

\* They are those of the parameters and of the dependencies so far; the required
\* parameters are what was given.
Filled ==
    /\ op \in DOMAIN Operations
    /\ step \in 1 .. Len(Operations[op].depends) + 1
    /\ DOMAIN env = Variables(Operations[op], step)
    /\ \A i \in DOMAIN Operations[op].parameter :
          LET p == Operations[op].parameter[i]
          IN  ~p.optional => env[p.name] = given[p.name]

\* A dependency is what Mumble returned when it was asked with the values that the
\* variables still have.
LookedUp ==
    \A i \in 1 .. (step - 1) :
        LET dependency == Operations[op].depends[i]
            function   == dependency.call.function
        IN  \E found \in lookups :
               /\ found = [function |-> function,
                           args     |-> Evaluated(dependency.call.args),
                           value    |-> found.value]
               /\ env[dependency.name] = Converted(function, found.value)
               /\ dependency.name = "userID" => found.value \in UserIds

\* A flag that was read is still what it was, unless somebody else set it.
FlagsKnown ==
    ~touched => /\ "isMuted" \in DOMAIN env => env["isMuted"] = flags["muted"]
                /\ "isDeafened" \in DOMAIN env => env["isDeafened"] = flags["deafened"]

\* What the operation did is its last call.
Done ==
    /\ Filled /\ LookedUp /\ Typed
    /\ step = Len(Operations[op].depends) + 1
    /\ Accepted(Evaluated(Operations[op].executes.args))
    /\ effects = <<[function |-> Operations[op].executes.function,
                    args     |-> Evaluated(Operations[op].executes.args)]>>

CliInv ==
    /\ pc \in {"idle", "querying", "executing", "ended"}
    /\ op \in DOMAIN Operations \cup {Missing}
    /\ given \in Objects \cup {Missing}
    /\ flags \in [{"muted", "deafened"} -> BOOLEAN] /\ touched \in BOOLEAN
    /\ step \in 1 .. 4
    /\ Typed
    /\ IsFiniteSet(lookups) /\ Cardinality(lookups) <= step - 1
    /\ result = Missing \/
          result.type \in {"api_call", "api_error", "error", "null",
                           "InvalidMessageException", "OperationException",
                           "TimeoutException"}
    /\ pc = "idle" => env = <<>> /\ step = 1
    /\ pc # "ended" => result = Missing /\ effects = <<>>
    /\ pc \in {"querying", "executing"} => Filled /\ LookedUp /\ FlagsKnown
    /\ pc = "querying" => step <= Len(Operations[op].depends)
    /\ pc = "executing" => step = Len(Operations[op].depends) + 1
    /\ effects # <<>> => Done
    /\ ResultTellsEffect

-----------------------------------------------------------------------------
(***************************************************************************)
(* Parameters and variables.                                               *)
(***************************************************************************)
\* The required parameters are taken as they are; all are strings.
LEMMA ParametersExtracted ==
    ASSUME NEW o, WellFormed(o), NEW object \in Objects,
           ParametersAccepted(o.parameter, object)
    PROVE  LET values == Extracted(o.parameter, object)
           IN  /\ DOMAIN values = ParameterNames(o.parameter)
               /\ \A i \in DOMAIN o.parameter :
                     ~o.parameter[i].optional =>
                         values[o.parameter[i].name] = object[o.parameter[i].name]
               /\ \A x \in DOMAIN values :
                     x \in Fields /\ values[x] \in Names \cup Passwords \cup {EmptyString}
<1> DEFINE values == Extracted(o.parameter, object)
<1>1. DOMAIN values = ParameterNames(o.parameter)
  BY DEF Extracted
<1>2. ASSUME NEW i \in DOMAIN o.parameter
      PROVE  /\ o.parameter[i].name \in Fields
             /\ values[o.parameter[i].name] =
                   IF o.parameter[i].optional THEN EmptyString
                   ELSE object[o.parameter[i].name]
  <2> DEFINE name == o.parameter[i].name
             p == CHOOSE k \in DOMAIN o.parameter : o.parameter[k].name = name
  <2>1. p \in DOMAIN o.parameter /\ o.parameter[p].name = name
    OBVIOUS
  <2>2. p = i
    BY <2>1 DEF WellFormed
  <2>3. name \in ParameterNames(o.parameter)
    BY DEF ParameterNames
  <2>4. values[name] = IF o.parameter[p].optional THEN o.parameter[p].default
                       ELSE object[name]
    BY <2>3 DEF Extracted
  <2> QED
    BY <2>2, <2>4 DEF WellFormed
<1>3. ASSUME NEW i \in DOMAIN o.parameter, ~o.parameter[i].optional
      PROVE  object[o.parameter[i].name] \in Names \cup Passwords
  <2>1. o.parameter[i].name \in DOMAIN object /\ object[o.parameter[i].name] # NotAString
    BY <1>3 DEF ParametersAccepted, IsString
  <2> QED
    BY <2>1 DEF Objects
<1> HIDE DEF values
<1>4. \A x \in DOMAIN values :
         x \in Fields /\ values[x] \in Names \cup Passwords \cup {EmptyString}
  <2> SUFFICES ASSUME NEW i \in DOMAIN o.parameter
               PROVE  LET x == o.parameter[i].name
                      IN  /\ x \in Fields
                          /\ values[x] \in Names \cup Passwords \cup {EmptyString}
    BY <1>1 DEF ParameterNames
  <2>1. CASE o.parameter[i].optional
    BY <1>2, <2>1
  <2>2. CASE ~o.parameter[i].optional
    BY <1>2, <1>3, <2>2
  <2> QED
    BY <2>1, <2>2
<1> QED
  BY <1>1, <1>2, <1>4 DEF values

\* The variables before the next dependency.
LEMMA VariablesNext ==
    ASSUME NEW o, NEW i \in Nat, i >= 1
    PROVE  /\ Variables(o, 1) = ParameterNames(o.parameter)
           /\ Variables(o, i + 1) = Variables(o, i) \cup {o.depends[i].name}
           /\ \A k \in 1 .. i : Variables(o, k) \subseteq Variables(o, i)
           /\ \A k \in 1 .. (i - 1) : o.depends[k].name \in Variables(o, i)
<1>1. 1 .. (1 - 1) = {}
  OBVIOUS
<1>2. 1 .. (i + 1 - 1) = 1 .. (i - 1) \cup {i}
  OBVIOUS
<1>3. \A k \in 1 .. i : 1 .. (k - 1) \subseteq 1 .. (i - 1)
  OBVIOUS
<1> QED
  BY <1>1, <1>2, <1>3 DEF Variables

\* Arguments keep their values when a variable is added.
LEMMA EvaluatedStays ==
    ASSUME NEW args, \A a \in DOMAIN args : args[a].var \in DOMAIN env,
           \A x \in DOMAIN env : env'[x] = env[x]
    PROVE  Evaluated(args)' = Evaluated(args)
BY DEF Evaluated

\* A user id that is not negative after the conversion is the one that was returned.
LEMMA ConversionExact ==
    /\ UIntModulus \in Nat /\ UIntModulus = 2 * Width /\ Width \in Nat
    /\ \A function, value :
          function \notin {"getLocalUserID", "findUserByName"} =>
              Converted(function, value) = value
    /\ \A function : \A value \in UserIds :
          function \in {"getLocalUserID", "findUserByName"} =>
              /\ Converted(function, value) \in -Width .. (Width - 1)
              /\ Converted(function, value) >= 0 => Converted(function, value) = value
<1>1. UIntModulus \in Nat /\ UIntModulus = 2 * Width /\ Width \in Nat
  BY ConstantsAssumption DEF Width
<1> QED
  BY <1>1 DEF Converted, UserIds, Width

-----------------------------------------------------------------------------
(***************************************************************************)
(* Each step.                                                              *)
(***************************************************************************)
LEMMA InitCliInv == Init => CliInv
<1> SUFFICES ASSUME Init PROVE CliInv
  OBVIOUS
<1>1. IsFiniteSet(lookups) /\ Cardinality(lookups) = 0
  BY FS_EmptySet DEF Init
<1>2. /\ pc = "idle" /\ op = Missing /\ given = Missing /\ env = <<>> /\ step = 1
      /\ result = Missing /\ touched = FALSE /\ effects = <<>>
      /\ flags \in [{"muted", "deafened"} -> BOOLEAN]
  BY DEF Init
<1>3. Typed
  BY <1>2 DEF Typed
<1>4. ResultTellsEffect
  BY <1>2 DEF ResultTellsEffect
<1>5. /\ pc \in {"idle", "querying", "executing", "ended"}
      /\ op \in DOMAIN Operations \cup {Missing}
      /\ given \in Objects \cup {Missing}
      /\ step \in 1 .. 4
      /\ Cardinality(lookups) <= step - 1
  BY <1>1, <1>2
<1>6. touched \in BOOLEAN
  BY <1>2
<1> QED
  BY <1>1, <1>2, <1>3, <1>4, <1>5, <1>6 DEF CliInv

LEMMA BeginInv ==
    ASSUME CliInv, NEW name \in DOMAIN Operations, NEW object \in Objects \cup {Missing},
           Begin(name, object)
    PROVE  CliInv'
<1> DEFINE o == Operations[name]
<1>1. /\ op' = name /\ given' = object /\ touched' = FALSE
      /\ UNCHANGED <<step, flags, lookups, effects>>
      /\ pc = "idle" /\ env = <<>> /\ step = 1 /\ result = Missing /\ effects = <<>>
  BY DEF Begin, CliInv
<1>2. WellFormed(o)
  BY OperationsWellFormed
<1>3. CASE pc' = "ended"
  <2>1. /\ result'.type = "InvalidMessageException" /\ result'.value = Missing
        /\ env' = env
    BY <1>3 DEF Begin, Throw, End
  <2>2. ResultTellsEffect'
    BY <1>1, <2>1, ConstantsAssumption DEF ResultTellsEffect
  <2> QED
    BY <1>1, <1>3, <2>1, <2>2 DEF CliInv, Typed
<1>4. CASE pc' = "querying"
  <2>1. /\ o.parameter = <<>> \/ ParametersAccepted(o.parameter, object)
        /\ env' = IF o.parameter = <<>> THEN <<>> ELSE Extracted(o.parameter, object)
        /\ UNCHANGED result
    BY <1>4 DEF Begin, Throw, End
  <2>2. /\ DOMAIN env' = ParameterNames(o.parameter)
        /\ \A i \in DOMAIN o.parameter :
              ~o.parameter[i].optional =>
                  env'[o.parameter[i].name] = object[o.parameter[i].name]
        /\ \A x \in DOMAIN env' :
              x \in Fields /\ env'[x] \in Names \cup Passwords \cup {EmptyString}
    <3>1. CASE o.parameter = <<>>
      BY <2>1, <3>1 DEF ParameterNames
    <3>2. CASE o.parameter # <<>>
      <4>1. object \in Objects /\ ParametersAccepted(o.parameter, object)
        BY <2>1, <3>2 DEF ParametersAccepted
      <4> QED
        BY <1>2, <2>1, <3>2, <4>1, ParametersExtracted
    <3> QED
      BY <3>1, <3>2
  <2>3. Typed'
    BY <2>2 DEF Typed, Fields
  <2>4. Filled'
    BY <1>1, <1>2, <2>2, VariablesNext DEF Filled, WellFormed
  <2>5. LookedUp' /\ FlagsKnown'
    BY <1>1, <2>2 DEF LookedUp, FlagsKnown, Fields
  <2>6. step' <= Len(Operations[op].depends)'
    BY <1>1, <1>2 DEF WellFormed
  <2> QED
    BY <1>1, <1>4, <2>1, <2>3, <2>4, <2>5, <2>6 DEF CliInv, ResultTellsEffect
<1> QED
  BY <1>3, <1>4 DEF Begin, Throw, End

\* A lookup changes nothing.
LEMMA LookupsChangeNothing ==
    ASSUME NEW function, NEW x, Yields(function, x)
    PROVE  ~Changes(function) /\ \A flag : ~Sets(function, flag)
BY DEF Yields, Changes, Sets

\* A variable that is filled gets a value of its type.
LEMMA ReturnsTyped ==
    ASSUME CliInv, NEW function, NEW x, Yields(function, x), NEW value \in Returns(function)
    PROVE  /\ x \notin Fields
           /\ x \in {"isMuted", "isDeafened"} => Converted(function, value) \in BOOLEAN
           /\ x = "connectionID" => Converted(function, value) \in Connections
           /\ x = "channelID" => Converted(function, value) \in ChannelIds
           /\ x = "userID" => /\ value \in UserIds
                              /\ Converted(function, value) \in -Width .. (Width - 1)
           /\ x = "isMuted" => Converted(function, value) = flags["muted"]
           /\ x = "isDeafened" => Converted(function, value) = flags["deafened"]
<1>1. flags["muted"] \in BOOLEAN /\ flags["deafened"] \in BOOLEAN
  BY DEF CliInv
<1>2. ~Changes(function)
  BY LookupsChangeNothing
<1>3. CASE x = "userID"
  <2>1. function \in {"getLocalUserID", "findUserByName"} /\ value \in UserIds
    BY <1>2, <1>3 DEF Yields, Returns
  <2> QED
    BY <1>3, <2>1, ConversionExact DEF Fields
<1>4. CASE x # "userID"
  <2>1. function \notin {"getLocalUserID", "findUserByName"}
    BY <1>4 DEF Yields
  <2>2. Converted(function, value) = value
    BY <2>1, ConversionExact
  <2> QED
    BY <1>1, <1>2, <1>4, <2>2 DEF Yields, Returns, Fields
<1> QED
  BY <1>3, <1>4

LEMMA QueryChangesNothing ==
    ASSUME CliInv, Query PROVE effects' = effects /\ flags' = flags
<1>1. PICK d : d = Operations[op].depends[step]
  OBVIOUS
<1>2. Yields(d.call.function, d.name)
  BY <1>1, OperationsWellFormed DEF Query, CliInv, Filled, WellFormed
<1>3. ~Changes(d.call.function) /\ \A flag : ~Sets(d.call.function, flag)
  BY <1>2, LookupsChangeNothing
<1>4. PICK answer : Perform(d.call.function, Evaluated(d.call.args), answer)
  BY <1>1 DEF Query
<1>5. flags \in [{"muted", "deafened"} -> BOOLEAN]
  BY DEF CliInv
<1>6. flags' = [flag \in DOMAIN flags |-> flags[flag]]
  BY <1>3, <1>4 DEF Perform
<1> QED
  BY <1>3, <1>4, <1>5, <1>6 DEF Perform

LEMMA QueryInv == ASSUME CliInv, Query PROVE CliInv'
<1>1. PICK o : o = Operations[op]
  OBVIOUS
<1>2. PICK d : d = o.depends[step]
  OBVIOUS
<1>3. PICK args : args = Evaluated(d.call.args)
  OBVIOUS
<1>4. /\ pc = "querying" /\ Filled /\ LookedUp /\ FlagsKnown /\ Typed
      /\ result = Missing /\ effects = <<>>
      /\ op \in DOMAIN Operations /\ WellFormed(o)
      /\ step \in 1 .. Len(o.depends) /\ step \in Nat /\ step >= 1
      /\ Len(o.depends) \in 1 .. 3
      /\ UNCHANGED <<op, given, touched>>
  BY <1>1, OperationsWellFormed DEF Query, CliInv, Filled, WellFormed
<1>5. /\ DOMAIN env = Variables(o, step)
      /\ Yields(d.call.function, d.name) /\ d.name \notin DOMAIN env
      /\ \A a \in DOMAIN d.call.args : d.call.args[a].var \in DOMAIN env
  BY <1>1, <1>2, <1>4 DEF Filled, WellFormed
<1>6. ~Changes(d.call.function) /\ \A flag : ~Sets(d.call.function, flag)
  BY <1>5, LookupsChangeNothing
<1>7. PICK answer \in Answers(d.call.function, args) :
         /\ Perform(d.call.function, args, answer)
         /\ IF ApiResponse(answer)
            THEN /\ env' = [x \in DOMAIN env \cup {d.name} |->
                               IF x = d.name
                               THEN Converted(d.call.function, answer.value) ELSE env[x]]
                 /\ lookups' = lookups \cup {[function |-> d.call.function, args |-> args,
                                              value |-> answer.value]}
                 /\ step' = step + 1
                 /\ pc' = IF step = Len(o.depends) THEN "executing" ELSE "querying"
                 /\ UNCHANGED result
            ELSE /\ Throw(IF answer.type = "lost" THEN "TimeoutException"
                          ELSE "OperationException")
                 /\ UNCHANGED <<env, lookups, step>>
  BY <1>1, <1>2, <1>3 DEF Query
<1>8. effects' = <<>>
  BY <1>4, QueryChangesNothing
<1>9. flags' = flags
  BY QueryChangesNothing
<1>10. CASE ApiResponse(answer)
  <2>1. answer.value \in Returns(d.call.function)
    BY <1>6, <1>7, <1>10 DEF ApiResponse, Answers, Answer
  <2>2. /\ DOMAIN env' = DOMAIN env \cup {d.name}
        /\ env'[d.name] = Converted(d.call.function, answer.value)
        /\ \A x \in DOMAIN env : env'[x] = env[x]
        /\ lookups' = lookups \cup {[function |-> d.call.function, args |-> args,
                                     value |-> answer.value]}
        /\ step' = step + 1
        /\ pc' = IF step = Len(o.depends) THEN "executing" ELSE "querying"
        /\ result' = result
    BY <1>5, <1>7, <1>10
  <2>3. /\ d.name \notin Fields
        /\ d.name \in {"isMuted", "isDeafened"} => env'[d.name] \in BOOLEAN
        /\ d.name = "connectionID" => env'[d.name] \in Connections
        /\ d.name = "channelID" => env'[d.name] \in ChannelIds
        /\ d.name = "userID" => /\ answer.value \in UserIds
                                /\ env'[d.name] \in -Width .. (Width - 1)
        /\ d.name = "isMuted" => env'[d.name] = flags["muted"]
        /\ d.name = "isDeafened" => env'[d.name] = flags["deafened"]
    BY <1>5, <2>1, <2>2, ReturnsTyped
  <2>4. Typed'
    <3>1. Typed
      BY <1>4
    <3> SUFFICES ASSUME NEW x \in DOMAIN env'
                 PROVE  /\ x \in {"isMuted", "isDeafened"} => env'[x] \in BOOLEAN
                        /\ x = "connectionID" => env'[x] \in Connections
                        /\ x = "channelID" => env'[x] \in ChannelIds
                        /\ x = "userID" => env'[x] \in -Width .. (Width - 1)
                        /\ x \in Fields => env'[x] \in Names \cup Passwords \cup {EmptyString}
      BY DEF Typed, Width
    <3>2. CASE x = d.name
      BY <2>3, <3>2
    <3>3. CASE x \in DOMAIN env
      BY <2>2, <3>1, <3>3 DEF Typed
    <3> QED
      BY <2>2, <3>2, <3>3
  <2>5. Filled'
    <3>1. DOMAIN env' = Variables(o, step')
      BY <1>2, <1>4, <1>5, <2>2, VariablesNext
    <3>2. \A i \in DOMAIN o.parameter :
             o.parameter[i].name \in DOMAIN env
      BY <1>4, <1>5 DEF Variables, ParameterNames
    <3>3. \A i \in DOMAIN o.parameter :
             ~o.parameter[i].optional =>
                 env'[o.parameter[i].name] = given'[o.parameter[i].name]
      BY <1>1, <1>4, <2>2, <3>2 DEF Filled
    <3>4. step' \in 1 .. Len(o.depends) + 1
      BY <1>4, <2>2
    <3> QED
      BY <1>1, <1>4, <3>1, <3>3, <3>4 DEF Filled
  <2>6. LookedUp'
    <3>1. ASSUME NEW i \in 1 .. (step - 1)
          PROVE  \E found \in lookups' :
                    /\ found = [function |-> o.depends[i].call.function,
                                args     |-> Evaluated(o.depends[i].call.args)',
                                value    |-> found.value]
                    /\ env'[o.depends[i].name] =
                          Converted(o.depends[i].call.function, found.value)
                    /\ o.depends[i].name = "userID" => found.value \in UserIds
      <4>1. PICK found \in lookups :
               /\ found = [function |-> o.depends[i].call.function,
                           args     |-> Evaluated(o.depends[i].call.args),
                           value    |-> found.value]
               /\ env[o.depends[i].name] =
                     Converted(o.depends[i].call.function, found.value)
               /\ o.depends[i].name = "userID" => found.value \in UserIds
        BY <1>1, <1>4 DEF LookedUp
      <4>2. i \in 1 .. step /\ i \in 1 .. Len(o.depends)
        BY <1>4
      <4>3. /\ o.depends[i].name \in DOMAIN env
            /\ \A a \in DOMAIN o.depends[i].call.args :
                  o.depends[i].call.args[a].var \in DOMAIN env
        <5>1. Variables(o, i) \subseteq DOMAIN env /\ o.depends[i].name \in DOMAIN env
          BY <1>4, <1>5, <4>2, VariablesNext
        <5> QED
          BY <1>4, <4>2, <5>1 DEF WellFormed
      <4>4. Evaluated(o.depends[i].call.args)' = Evaluated(o.depends[i].call.args)
        BY <2>2, <4>3, EvaluatedStays
      <4> QED
        BY <2>2, <4>1, <4>3, <4>4
    <3>2. \E found \in lookups' :
             /\ found = [function |-> d.call.function,
                         args     |-> Evaluated(d.call.args)',
                         value    |-> found.value]
             /\ env'[d.name] = Converted(d.call.function, found.value)
             /\ d.name = "userID" => found.value \in UserIds
      <4>1. Evaluated(d.call.args)' = args
        BY <1>3, <1>5, <2>2, EvaluatedStays
      <4>2. PICK found : found = [function |-> d.call.function, args |-> args,
                                  value |-> answer.value]
        OBVIOUS
      <4>3. found \in lookups' /\ found.value = answer.value
        BY <2>2, <4>2
      <4> QED
        BY <2>2, <2>3, <4>1, <4>2, <4>3
    <3>3. ASSUME NEW i \in 1 .. (step' - 1)
          PROVE  \E found \in lookups' :
                    /\ found = [function |-> o.depends[i].call.function,
                                args     |-> Evaluated(o.depends[i].call.args)',
                                value    |-> found.value]
                    /\ env'[o.depends[i].name] =
                          Converted(o.depends[i].call.function, found.value)
                    /\ o.depends[i].name = "userID" => found.value \in UserIds
      <4>1. i \in 1 .. (step - 1) \/ i = step
        BY <1>4, <2>2
      <4>2. CASE i \in 1 .. (step - 1)
        BY <3>1, <4>2
      <4>3. CASE i = step
        BY <1>2, <3>2, <4>3
      <4> QED
        BY <4>1, <4>2, <4>3
    <3> QED
      BY <1>1, <1>4, <3>3 DEF LookedUp, Evaluated
  <2>7. FlagsKnown'
    BY <1>4, <1>5, <1>9, <2>2, <2>3 DEF FlagsKnown
  <2>8. IsFiniteSet(lookups') /\ Cardinality(lookups') <= step' - 1
    <3>1. IsFiniteSet(lookups) /\ Cardinality(lookups) <= step - 1
      BY DEF CliInv
    <3>2. /\ IsFiniteSet(lookups')
          /\ Cardinality(lookups') \in {Cardinality(lookups), Cardinality(lookups) + 1}
      <4>1. PICK found : lookups' = lookups \cup {found}
        BY <2>2
      <4> QED
        BY <3>1, <4>1, FS_AddElement
    <3>3. Cardinality(lookups) \in Nat
      BY <3>1, FS_CardinalityType
    <3> QED
      BY <1>4, <2>2, <3>1, <3>2, <3>3
  <2>9. /\ step' \in 1 .. 4 /\ pc' \in {"querying", "executing"}
        /\ pc' = "querying" => step' <= Len(Operations[op'].depends)
        /\ pc' = "executing" => step' = Len(Operations[op'].depends) + 1
    <3>1. Operations[op'] = o
      BY <1>1, <1>4
    <3>2. PICK n \in 1 .. 3 : n = Len(o.depends)
      BY <1>4
    <3>3. step \in 1 .. n
      BY <1>4, <3>2
    <3>4. step' \in 1 .. 4 /\ step' <= n + 1
      BY <2>2, <3>3
    <3>5. CASE step = n
      BY <2>2, <3>1, <3>2, <3>4, <3>5
    <3>6. CASE step # n
      BY <2>2, <3>1, <3>2, <3>3, <3>4, <3>6
    <3> QED
      BY <3>5, <3>6
  <2> QED
    BY <1>4, <1>8, <1>9, <2>2, <2>4, <2>5, <2>6, <2>7, <2>8, <2>9
    DEF CliInv, ResultTellsEffect
<1>11. CASE ~ApiResponse(answer)
  <2>1. /\ pc' = "ended" /\ result'.value = Missing
        /\ result'.type \in {"TimeoutException", "OperationException"}
        /\ UNCHANGED <<env, lookups, step>>
    BY <1>7, <1>11 DEF Throw, End
  <2>2. ResultTellsEffect'
    BY <1>8, <2>1, ConstantsAssumption DEF ResultTellsEffect
  <2> QED
    BY <1>4, <1>8, <1>9, <2>1, <2>2 DEF CliInv, Typed
<1> QED
  BY <1>10, <1>11
\* The last call of an operation that changes something.
LEMMA LastCalls ==
    ASSUME NEW name \in DOMAIN Operations
    PROVE  LET o == Operations[name]
               function == o.executes.function
           IN  /\ name \in {"move", "move_local_user"} =>
                     o.executes = requestUserMove /\ function = "requestUserMove"
               /\ name = "get_local_user_name" => function = "getUserName"
               /\ name = "toggle_local_user_mute" =>
                     /\ function = "requestLocalUserMute"
                     /\ o.executes.args = [muted |-> Negation("isMuted")]
                     /\ Variables(o, Len(o.depends) + 1) = {"isMuted"}
               /\ name = "toggle_local_user_deaf" =>
                     /\ function = "requestLocalUserDeaf"
                     /\ o.executes.args = [deafened |-> Negation("isDeafened")]
                     /\ Variables(o, Len(o.depends) + 1) = {"isDeafened"}
<1>1. CASE name \in {"move", "move_local_user"}
  BY <1>1, OperationNames DEF move, move_local_user, requestUserMove, Call
<1>2. CASE name = "get_local_user_name"
  BY <1>2, OperationNames DEF get_local_user_name, Call
<1>3. CASE name = "toggle_local_user_mute"
  BY <1>3, OperationNames
  DEF toggle_local_user_mute, Call, Variables, ParameterNames
<1>4. CASE name = "toggle_local_user_deaf"
  BY <1>4, OperationNames
  DEF toggle_local_user_deaf, Call, Variables, ParameterNames
<1> QED
  BY <1>1, <1>2, <1>3, <1>4, OperationNames

\* The flags after the last call: a toggle sets its own to the opposite of what it
\* read.
LEMMA FlagsAfter ==
    ASSUME CliInv, pc = "executing", NEW answer,
           Perform(Operations[op].executes.function,
                   Evaluated(Operations[op].executes.args), answer)
    PROVE  /\ flags' \in [{"muted", "deafened"} -> BOOLEAN]
           /\ ~(answer.done /\ Changes(Operations[op].executes.function)) => flags' = flags
           /\ answer.done => flags' = [flag \in DOMAIN flags |->
                                          IF Toggles(flag)
                                          THEN ~env[IF flag = "muted" THEN "isMuted"
                                                    ELSE "isDeafened"]
                                          ELSE flags[flag]]
           /\ \A flag : Toggles(flag) =>
                 (IF flag = "muted" THEN "isMuted" ELSE "isDeafened") \in DOMAIN env
<1>1. PICK o : o = Operations[op]
  OBVIOUS
<1>2. PICK args : args = Evaluated(o.executes.args)
  OBVIOUS
<1>3. /\ op \in DOMAIN Operations /\ DOMAIN env = Variables(o, Len(o.depends) + 1)
      /\ flags \in [{"muted", "deafened"} -> BOOLEAN] /\ Typed
  BY <1>1 DEF CliInv, Filled
<1>4. flags' = [flag \in DOMAIN flags |->
                   IF answer.done /\ Sets(o.executes.function, flag) THEN args[flag]
                   ELSE flags[flag]]
  BY <1>1, <1>2 DEF Perform
<1>5. CASE op \notin {"toggle_local_user_mute", "toggle_local_user_deaf"}
  <2>1. \A flag : ~Sets(o.executes.function, flag) /\ ~Toggles(flag)
    BY <1>1, <1>3, <1>5, LastCalls, OperationNames DEF Sets, Toggles
  <2>2. flags' = flags
    BY <1>3, <1>4, <2>1
  <2> QED
    BY <1>3, <2>1, <2>2
<1>6. CASE op = "toggle_local_user_mute"
  <2>1. /\ o.executes.function = "requestLocalUserMute"
        /\ o.executes.args = [muted |-> Negation("isMuted")]
        /\ DOMAIN env = {"isMuted"}
    BY <1>1, <1>3, <1>6, LastCalls
  <2>2. args["muted"] = ~env["isMuted"]
    BY <1>2, <2>1 DEF Evaluated, Negation
  <2>3. env["isMuted"] \in BOOLEAN
    BY <1>3, <2>1 DEF Typed
  <2>4. \A flag : /\ Sets(o.executes.function, flag) <=> flag = "muted"
                  /\ Toggles(flag) <=> flag = "muted"
    BY <1>6, <2>1 DEF Sets, Toggles
  <2>5. Changes(o.executes.function)
    BY <2>1 DEF Changes
  <2>6. flags' = [flag \in DOMAIN flags |->
                     IF answer.done /\ flag = "muted" THEN ~env["isMuted"]
                     ELSE flags[flag]]
    BY <1>4, <2>2, <2>4
  <2> QED
    BY <1>1, <1>3, <2>1, <2>3, <2>4, <2>5, <2>6
<1>7. CASE op = "toggle_local_user_deaf"
  <2>1. /\ o.executes.function = "requestLocalUserDeaf"
        /\ o.executes.args = [deafened |-> Negation("isDeafened")]
        /\ DOMAIN env = {"isDeafened"}
    BY <1>1, <1>3, <1>7, LastCalls
  <2>2. args["deafened"] = ~env["isDeafened"]
    BY <1>2, <2>1 DEF Evaluated, Negation
  <2>3. env["isDeafened"] \in BOOLEAN
    BY <1>3, <2>1 DEF Typed
  <2>4. \A flag : /\ Sets(o.executes.function, flag) <=> flag = "deafened"
                  /\ Toggles(flag) <=> flag = "deafened"
    BY <1>7, <2>1 DEF Sets, Toggles
  <2>5. Changes(o.executes.function)
    BY <2>1 DEF Changes
  <2>6. flags' = [flag \in DOMAIN flags |->
                     IF answer.done /\ flag = "deafened" THEN ~env["isDeafened"]
                     ELSE flags[flag]]
    BY <1>4, <2>2, <2>4
  <2> QED
    BY <1>1, <1>3, <2>1, <2>3, <2>4, <2>5, <2>6
<1> QED
  BY <1>5, <1>6, <1>7

LEMMA ExecuteInv == ASSUME CliInv, Execute PROVE CliInv'
<1>1. PICK o : o = Operations[op]
  OBVIOUS
<1>2. PICK function : function = o.executes.function
  OBVIOUS
<1>3. PICK args : args = Evaluated(o.executes.args)
  OBVIOUS
<1>4. /\ pc = "executing" /\ Filled /\ LookedUp /\ Typed
      /\ effects = <<>> /\ op \in DOMAIN Operations
      /\ step = Len(Operations[op].depends) + 1
      /\ UNCHANGED <<op, given, env, step, touched, lookups>>
  BY DEF Execute, CliInv, Filled
<1>5. PICK answer \in Answers(function, args) :
         /\ Perform(function, args, answer)
         /\ IF answer.type = "lost" THEN Throw("TimeoutException") ELSE Return(answer)
  BY <1>1, <1>2, <1>3 DEF Execute
<1>6. flags' \in [{"muted", "deafened"} -> BOOLEAN]
  BY <1>1, <1>2, <1>3, <1>4, <1>5, FlagsAfter
<1>7. /\ pc' = "ended"
      /\ result'.type = IF answer.type = "lost" THEN "TimeoutException" ELSE answer.type
      /\ result'.value = IF answer.type = "lost" THEN Missing ELSE answer.value
  BY <1>5 DEF Throw, Return, End
<1>8. /\ Missing # "success" /\ Missing # "failure"
      /\ "success" \notin Names /\ "failure" \notin Names
  BY ConstantsAssumption
<1>9. CASE answer.done /\ Changes(function)
  <2>1. /\ Accepted(args) /\ answer.value = "success"
        /\ answer.type \in {"api_call", "null", "lost"}
    BY <1>5, <1>9 DEF Answers, Answer, Returns
  <2>2. effects' = <<[function |-> function, args |-> args]>>
    BY <1>4, <1>5, <1>9 DEF Perform
  <2>3. Done'
    <3>1. /\ Filled' /\ LookedUp' /\ Typed'
          /\ Evaluated(Operations[op].executes.args)' = args
      BY <1>1, <1>3, <1>4 DEF Filled, LookedUp, Typed, Evaluated
    <3> QED
      BY <1>1, <1>2, <1>4, <2>1, <2>2, <3>1 DEF Done, Accepted
  <2>4. ResultTellsEffect'
    BY <1>7, <1>8, <2>1, <2>2 DEF ResultTellsEffect
  <2> QED
    BY <1>4, <1>6, <1>7, <2>1, <2>3, <2>4 DEF CliInv, Typed, Done
<1>10. CASE ~(answer.done /\ Changes(function))
  <2>1. effects' = <<>>
    BY <1>4, <1>5, <1>10 DEF Perform
  <2>2. /\ answer.type \in {"api_call", "null", "lost", "api_error", "error"}
        /\ answer.type = "api_call" => answer.value # "success"
    <3>1. CASE answer.done
      <4>1. function = "getUserName"
        BY <1>1, <1>2, <1>4, <1>10, <3>1, LastCalls, OperationNames DEF Changes
      <4>2. answer.value \in Names /\ answer.type \in {"api_call", "null", "lost"}
        BY <1>5, <3>1, <4>1 DEF Answers, Answer, Returns, Changes
      <4> QED
        BY <1>8, <4>2
    <3>2. CASE ~answer.done
      BY <1>5, <3>2 DEF Answers, Answer
    <3> QED
      BY <3>1, <3>2
  <2>3. ResultTellsEffect'
    BY <1>7, <1>8, <2>1, <2>2 DEF ResultTellsEffect
  <2> QED
    BY <1>4, <1>6, <1>7, <2>1, <2>2, <2>3 DEF CliInv, Typed
<1> QED
  BY <1>9, <1>10

LEMMA UnknownInv == ASSUME CliInv, Unknown PROVE CliInv'
<1>1. /\ UNCHANGED <<op, given, env, step, flags, touched, lookups, effects>>
      /\ pc' = "ended" /\ result'.type = "OperationException"
      /\ result'.value = Missing /\ effects = <<>>
  BY DEF Unknown, Throw, End, CliInv
<1>2. ResultTellsEffect'
  BY <1>1, ConstantsAssumption DEF ResultTellsEffect
<1> QED
  BY <1>1, <1>2 DEF CliInv, Typed

LEMMA ExitInv == ASSUME CliInv, Exit PROVE CliInv'
<1>1. /\ pc' = "idle" /\ op' = Missing /\ given' = Missing /\ env' = <<>>
      /\ step' = 1 /\ result' = Missing /\ touched' = FALSE /\ effects' = <<>>
      /\ flags' \in [{"muted", "deafened"} -> BOOLEAN]
  BY DEF Exit, CliInv
<1>2. IsFiniteSet(lookups') /\ Cardinality(lookups') = 0
  BY FS_EmptySet DEF Exit
<1>3. Typed'
  BY <1>1 DEF Typed
<1>4. ResultTellsEffect'
  BY <1>1 DEF ResultTellsEffect
<1>5. /\ pc' \in {"idle", "querying", "executing", "ended"}
      /\ op' \in (DOMAIN Operations)' \cup {Missing}
      /\ given' \in Objects \cup {Missing}
      /\ step' \in 1 .. 4
      /\ Cardinality(lookups') <= step' - 1
  BY <1>1, <1>2
<1>6. touched' \in BOOLEAN
  BY <1>1
<1> QED
  BY <1>1, <1>2, <1>3, <1>4, <1>5, <1>6 DEF CliInv

LEMMA SetByOthersInv ==
    ASSUME CliInv, NEW flag \in DOMAIN flags, SetByOthers(flag) PROVE CliInv'
<1>1. /\ UNCHANGED <<pc, op, given, env, step, result, lookups, effects>>
      /\ touched' = TRUE /\ flags' = [flags EXCEPT ![flag] = ~@]
  BY DEF SetByOthers
<1>2. flags' \in [{"muted", "deafened"} -> BOOLEAN]
  <2>1. flags \in [{"muted", "deafened"} -> BOOLEAN]
    BY DEF CliInv
  <2> QED
    BY <1>1, <2>1
<1>3. Typed' = Typed /\ Filled' = Filled /\ LookedUp' = LookedUp
      /\ ResultTellsEffect' = ResultTellsEffect /\ FlagsKnown'
  BY <1>1 DEF Typed, Filled, LookedUp, Evaluated, ResultTellsEffect, FlagsKnown
<1>4. Done' = Done
  BY <1>1, <1>3 DEF Done, Evaluated
<1> QED
  BY <1>1, <1>2, <1>3, <1>4 DEF CliInv

LEMMA StutterInv == ASSUME CliInv, UNCHANGED vars PROVE CliInv'
<1>1. UNCHANGED <<pc, op, given, env, step, result, flags, touched, lookups, effects>>
  BY DEF vars
<1>2. Typed' = Typed /\ Filled' = Filled /\ LookedUp' = LookedUp
      /\ ResultTellsEffect' = ResultTellsEffect /\ FlagsKnown' = FlagsKnown
  BY <1>1 DEF Typed, Filled, LookedUp, Evaluated, ResultTellsEffect, FlagsKnown
<1>3. Done' = Done
  BY <1>1, <1>2 DEF Done, Evaluated
<1> QED
  BY <1>1, <1>2, <1>3 DEF CliInv

LEMMA CliNextInv == CliInv /\ [Next]_vars => CliInv'
<1> SUFFICES ASSUME CliInv, [Next]_vars PROVE CliInv'
  OBVIOUS
<1>1. ASSUME NEW name \in DOMAIN Operations, NEW object \in Objects \cup {Missing},
             Begin(name, object)
      PROVE  CliInv'
  BY <1>1, BeginInv
<1>2. CASE Unknown
  BY <1>2, UnknownInv
<1>3. CASE Query
  BY <1>3, QueryInv
<1>4. CASE Execute
  BY <1>4, ExecuteInv
<1>5. CASE Exit
  BY <1>5, ExitInv
<1>6. ASSUME NEW flag \in DOMAIN flags, SetByOthers(flag) PROVE CliInv'
  BY <1>6, SetByOthersInv
<1>7. CASE UNCHANGED vars
  BY <1>7, StutterInv
<1> QED
  BY <1>1, <1>2, <1>3, <1>4, <1>5, <1>6, <1>7 DEF Next

\* What an operation that moves somebody has looked up, when it makes its last call.
LEMMA MoveLookups ==
    ASSUME Filled, LookedUp, Typed, op \in {"move", "move_local_user"},
           step = Len(Operations[op].depends) + 1
    PROVE  /\ \E found \in lookups :
                 found = [function |-> "findChannelByName",
                          args |-> [connection   |-> env["connectionID"],
                                    channel_name |-> given["channel"]],
                          value |-> env["channelID"]]
           /\ env["userID"] >= 0 =>
                 \E found \in lookups :
                    found = IF op = "move"
                            THEN [function |-> "findUserByName",
                                  args |-> [connection |-> env["connectionID"],
                                            user_name  |-> given["user"]],
                                  value |-> env["userID"]]
                            ELSE [function |-> "getLocalUserID",
                                  args |-> [connection |-> env["connectionID"]],
                                  value |-> env["userID"]]
<1>1. PICK o : o = Operations[op]
  OBVIOUS
<1>2. /\ Len(o.depends) = 3 /\ o.depends[3] = channelByName
      /\ \E i \in DOMAIN o.parameter :
            o.parameter[i].name = "channel" /\ ~o.parameter[i].optional
      /\ op = "move" =>
            /\ o.depends[2].name = "userID"
            /\ o.depends[2].call =
                  Call("findUserByName", [connection |-> Value("connectionID"),
                                          user_name  |-> Value("user")])
            /\ \E i \in DOMAIN o.parameter :
                  o.parameter[i].name = "user" /\ ~o.parameter[i].optional
      /\ op # "move" => o.depends[2] = localUser
  <2>1. CASE op = "move"
    <3>1. /\ DOMAIN o.parameter = 1 .. 3
          /\ o.parameter[1] = Required("user") /\ o.parameter[2] = Required("channel")
          /\ Len(o.depends) = 3 /\ o.depends[3] = channelByName
          /\ o.depends[2].name = "userID"
          /\ o.depends[2].call =
                Call("findUserByName", [connection |-> Value("connectionID"),
                                        user_name  |-> Value("user")])
      BY <1>1, <2>1, OperationNames DEF move
    <3> QED
      BY <2>1, <3>1 DEF Required
  <2>2. CASE op = "move_local_user"
    <3>1. /\ DOMAIN o.parameter = 1 .. 2 /\ o.parameter[1] = Required("channel")
          /\ Len(o.depends) = 3 /\ o.depends[3] = channelByName
          /\ o.depends[2] = localUser
      BY <1>1, <2>2, OperationNames DEF move_local_user
    <3> QED
      BY <2>2, <3>1 DEF Required
  <2> QED
    BY <2>1, <2>2
<1>3. env["channel"] = given["channel"] /\ (op = "move" => env["user"] = given["user"])
  BY <1>1, <1>2 DEF Filled
<1>4. ASSUME NEW i \in 1 .. 3
      PROVE  \E found \in lookups :
                /\ found = [function |-> o.depends[i].call.function,
                            args     |-> Evaluated(o.depends[i].call.args),
                            value    |-> found.value]
                /\ env[o.depends[i].name] = Converted(o.depends[i].call.function, found.value)
                /\ o.depends[i].name = "userID" => found.value \in UserIds
  BY <1>1, <1>2 DEF LookedUp
<1>5. PICK channel \in lookups :
         /\ channel = [function |-> "findChannelByName",
                       args     |-> Evaluated(channelByName.call.args),
                       value    |-> channel.value]
         /\ env["channelID"] = Converted("findChannelByName", channel.value)
  <2>1. channelByName.name = "channelID"
        /\ channelByName.call.function = "findChannelByName"
    BY DEF channelByName, Call
  <2> QED
    BY <1>2, <1>4, <2>1
<1>6. /\ Evaluated(channelByName.call.args) =
            [connection |-> env["connectionID"], channel_name |-> given["channel"]]
      /\ channel.value = env["channelID"]
  BY <1>3, <1>5, ConversionExact DEF Evaluated, channelByName, Call, Value
<1>7. ASSUME env["userID"] >= 0
      PROVE  \E found \in lookups :
                found = IF op = "move"
                        THEN [function |-> "findUserByName",
                              args |-> [connection |-> env["connectionID"],
                                        user_name  |-> given["user"]],
                              value |-> env["userID"]]
                        ELSE [function |-> "getLocalUserID",
                              args |-> [connection |-> env["connectionID"]],
                              value |-> env["userID"]]
  <2>1. PICK user \in lookups :
           /\ user = [function |-> o.depends[2].call.function,
                      args     |-> Evaluated(o.depends[2].call.args),
                      value    |-> user.value]
           /\ env[o.depends[2].name] = Converted(o.depends[2].call.function, user.value)
           /\ o.depends[2].name = "userID" => user.value \in UserIds
    BY <1>4
  <2>2. CASE op = "move"
    <3>1. /\ o.depends[2].name = "userID"
          /\ o.depends[2].call.function = "findUserByName"
          /\ Evaluated(o.depends[2].call.args) =
                [connection |-> env["connectionID"], user_name |-> given["user"]]
      BY <1>2, <1>3, <2>2 DEF Evaluated, Call, Value
    <3>2. user.value = env["userID"]
      BY <1>7, <2>1, <3>1, ConversionExact
    <3> QED
      BY <2>1, <2>2, <3>1, <3>2
  <2>3. CASE op # "move"
    <3>1. /\ o.depends[2].name = "userID"
          /\ o.depends[2].call.function = "getLocalUserID"
          /\ Evaluated(o.depends[2].call.args) = [connection |-> env["connectionID"]]
      <4>1. /\ localUser.name = "userID" /\ localUser.call.function = "getLocalUserID"
            /\ Evaluated(localUser.call.args) = [connection |-> env["connectionID"]]
        BY DEF localUser, Evaluated, Call, Value
      <4> QED
        BY <1>2, <2>3, <4>1
    <3>2. user.value = env["userID"]
      BY <1>7, <2>1, <3>1, ConversionExact
    <3> QED
      BY <2>1, <2>3, <3>1, <3>2
  <2> QED
    BY <2>2, <2>3
<1> QED
  BY <1>5, <1>6, <1>7

-----------------------------------------------------------------------------
(***************************************************************************)
(* The theorems.                                                           *)
(***************************************************************************)
\* The invariant of generate_CLI_operations.py's functions: their variables are what
\* Mumble returned, and what they did is their last call.
THEOREM CliInvariance == Spec => []CliInv
<1>1. Init => CliInv
  BY InitCliInv
<1>2. CliInv /\ [Next]_vars => CliInv'
  BY CliNextInv
<1> QED
  BY <1>1, <1>2, PTL DEF Spec

\* Every variable of an operation has a value of the type it is declared with.
THEOREM CliTypeCorrect == Spec => []TypeOK
<1>1. CliInv => TypeOK
  <2> SUFFICES ASSUME CliInv PROVE TypeOK
    OBVIOUS
  <2>1. Cardinality(lookups) <= 3
    <3>1. IsFiniteSet(lookups) /\ Cardinality(lookups) <= step - 1 /\ step \in 1 .. 4
      BY DEF CliInv
    <3>2. Cardinality(lookups) \in Nat
      BY <3>1, FS_CardinalityType
    <3> QED
      BY <3>1, <3>2
  <2>2. Len(effects) <= 1
    <3>1. CASE effects = <<>>
      BY <3>1
    <3>2. CASE effects # <<>>
      <4>1. PICK call : effects = <<call>>
        BY <3>2 DEF CliInv, Done
      <4> QED
        BY <4>1
    <3> QED
      BY <3>1, <3>2
  <2> QED
    BY <2>1, <2>2 DEF CliInv, TypeOK, Typed, Width
<1> QED
  BY <1>1, CliInvariance, PTL

\* Whichever check, lookup or call fails, the caller of an operation is told the
\* truth about whether Mumble was changed.
THEOREM ResultsTellEffect == Spec => []ResultTellsEffect
<1>1. CliInv => ResultTellsEffect
  BY DEF CliInv
<1> QED
  BY <1>1, CliInvariance, PTL

\* A user who is moved is the one that was found for the name that was given, and
\* so is the channel, although the id of the user passes through an int.
THEOREM ActsOnFound == Spec => []ActsOnWhatWasFound
<1>1. CliInv => ActsOnWhatWasFound
  <2> SUFFICES ASSUME CliInv, NEW i \in DOMAIN effects,
                      effects[i].function = "requestUserMove"
               PROVE  LET args == effects[i].args
                          Found(function, looked, value) ==
                              [function |-> function, args |-> looked,
                               value |-> value] \in lookups
                      IN  /\ Found("findChannelByName",
                                   [connection |-> args.connection,
                                    channel_name |-> given.channel], args.channel_id)
                          /\ IF op = "move"
                             THEN Found("findUserByName",
                                        [connection |-> args.connection,
                                         user_name |-> given.user], args.user_id)
                             ELSE Found("getLocalUserID",
                                        [connection |-> args.connection], args.user_id)
    BY DEF ActsOnWhatWasFound
  <2>1. PICK o : o = Operations[op]
    OBVIOUS
  <2>2. effects # <<>>
    OBVIOUS
  <2>3. /\ Filled /\ LookedUp /\ Typed /\ op \in DOMAIN Operations
        /\ step = Len(o.depends) + 1
        /\ Accepted(Evaluated(o.executes.args))
        /\ effects[i] = [function |-> o.executes.function,
                         args     |-> Evaluated(o.executes.args)]
    BY <2>1, <2>2 DEF CliInv, Done, Filled
  <2>4. op \in {"move", "move_local_user"} /\ o.executes = requestUserMove
    BY <2>1, <2>3, LastCalls, OperationNames
  <2>5. /\ effects[i].args.connection = env["connectionID"]
        /\ effects[i].args.channel_id = env["channelID"]
        /\ effects[i].args.user_id = env["userID"]
        /\ env["userID"] >= 0
    BY <2>3, <2>4 DEF Accepted, Evaluated, requestUserMove, Call, Value
  <2>6. PICK found \in lookups :
           /\ found = [function |-> "findChannelByName",
                       args |-> [connection   |-> env["connectionID"],
                                 channel_name |-> given["channel"]],
                       value |-> env["channelID"]]
    BY <2>1, <2>3, <2>4, MoveLookups
  <2>7. PICK user \in lookups :
           user = IF op = "move"
                  THEN [function |-> "findUserByName",
                        args |-> [connection |-> env["connectionID"],
                                  user_name  |-> given["user"]],
                        value |-> env["userID"]]
                  ELSE [function |-> "getLocalUserID",
                        args |-> [connection |-> env["connectionID"]],
                        value |-> env["userID"]]
    BY <2>1, <2>3, <2>4, <2>5, MoveLookups
  <2> QED
    BY <2>4, <2>5, <2>6, <2>7
<1> QED
  BY <1>1, CliInvariance, PTL

\* A toggle that nobody interferes with inverts its flag and no other.
THEOREM TogglesInvert == Spec => ToggleInverts
<1>1. CliInv /\ [Next]_vars =>
         [Len(effects') > Len(effects) /\ ~touched =>
             flags' = [flag \in DOMAIN flags |-> IF Toggles(flag) THEN ~flags[flag]
                                                 ELSE flags[flag]]]_vars
  <2> SUFFICES ASSUME CliInv, Next, Len(effects') > Len(effects), ~touched
               PROVE  flags' = [flag \in DOMAIN flags |->
                                   IF Toggles(flag) THEN ~flags[flag] ELSE flags[flag]]
    OBVIOUS
  <2>1. Execute
    <3>1. effects' # effects /\ effects' # <<>>
      <4>1. effects = <<>> \/ \E call : effects = <<call>>
        BY DEF CliInv, Done
      <4> QED
        BY <4>1
    <3> QED
      BY <3>1, QueryChangesNothing DEF Next, Begin, Unknown, Exit, SetByOthers
  <2>2. pc = "executing" /\ FlagsKnown /\ flags \in [{"muted", "deafened"} -> BOOLEAN]
    BY <2>1 DEF Execute, CliInv
  <2>3. PICK answer :
           Perform(Operations[op].executes.function,
                   Evaluated(Operations[op].executes.args), answer)
    BY <2>1 DEF Execute
  <2>4. answer.done
    BY <2>3 DEF Perform
  <2>5. flags' = [flag \in DOMAIN flags |->
                     IF Toggles(flag)
                     THEN ~env[IF flag = "muted" THEN "isMuted" ELSE "isDeafened"]
                     ELSE flags[flag]]
    BY <2>2, <2>3, <2>4, FlagsAfter
  <2>6. ASSUME NEW flag \in {"muted", "deafened"}, Toggles(flag)
        PROVE  env[IF flag = "muted" THEN "isMuted" ELSE "isDeafened"] = flags[flag]
    BY <2>2, <2>3, <2>6, FlagsAfter DEF FlagsKnown
  <2> QED
    BY <2>2, <2>5, <2>6
<1> QED
  BY <1>1, CliInvariance, PTL DEF Spec, ToggleInverts
=============================================================================
