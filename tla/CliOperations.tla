--------------------------- MODULE CliOperations ---------------------------
(***************************************************************************)
(* The operations of the command-line client: the code that                *)
(* scripts/generate_CLI_operations.py generates from cli/operations/*.yaml.*)
(* An operation checks its parameters, asks Mumble for the values it       *)
(* depends on, one API call after the other, and makes one last call.      *)
(*                                                                         *)
(* Nothing holds still between two calls: users come and go, the user      *)
(* changes servers or presses the mute button.  What Mumble answers to a   *)
(* lookup is therefore any value of the type, and the two flags the        *)
(* toggles set may change at any time.                                     *)
(***************************************************************************)
EXTENDS Integers, Sequences, FiniteSets

CONSTANTS
    Connections,    \* ids of the servers Mumble is connected to
    Names,          \* the strings a user passes for a user or a channel
    Passwords,      \* the passwords a user passes
    ChannelIds,     \* ids of channels (mumble_channelid_t is an int32_t)
    UIntModulus,    \* 2^32: mumble_userid_t is a uint32_t
    EmptyString,    \* the default of the parameter "password"
    NotAString,     \* a JSON value of another type
    Missing         \* no "parameter" object, no operation, no result

UserIds == 0 .. (UIntModulus - 1)

ASSUME ConstantsAssumption ==
    /\ UIntModulus \in Nat /\ UIntModulus % 2 = 0
    /\ EmptyString \notin Passwords
    /\ NotAString \notin Names \cup Passwords
    \* what a call returns for success and failure is a number, not a string
    /\ {"success", "failure"} \cap (Names \cup {Missing}) = {}

(***************************************************************************)
(* The operations (the .yaml files).                                       *)
(***************************************************************************)
Required(name)          == [name |-> name, optional |-> FALSE]
Optional(name, default) == [name |-> name, optional |-> TRUE, default |-> default]

\* the C++ expression that is the value of an argument
Value(var)    == [var |-> var, negated |-> FALSE]
Negation(var) == [var |-> var, negated |-> TRUE]

Call(function, args) == [function |-> function, args |-> args]

\* the same two lookups in three of the operations
activeConnection ==
    [name |-> "connectionID", call |-> Call("getActiveServerConnection", <<>>)]

localUser ==
    [name |-> "userID",
     call |-> Call("getLocalUserID", [connection |-> Value("connectionID")])]

channelByName ==
    [name |-> "channelID",
     call |-> Call("findChannelByName", [connection   |-> Value("connectionID"),
                                         channel_name |-> Value("channel")])]

requestUserMove ==
    Call("requestUserMove", [connection |-> Value("connectionID"),
                             user_id    |-> Value("userID"),
                             channel_id |-> Value("channelID"),
                             password   |-> Value("password")])

move ==
    [parameter |-> <<Required("user"), Required("channel"),
                     Optional("password", EmptyString)>>,
     depends   |-> <<activeConnection,
                     [name |-> "userID",
                      call |-> Call("findUserByName",
                                    [connection |-> Value("connectionID"),
                                     user_name  |-> Value("user")])],
                     channelByName>>,
     executes  |-> requestUserMove]

move_local_user ==
    [parameter |-> <<Required("channel"), Optional("password", EmptyString)>>,
     depends   |-> <<activeConnection, localUser, channelByName>>,
     executes  |-> requestUserMove]

get_local_user_name ==
    [parameter |-> <<>>,
     depends   |-> <<activeConnection, localUser>>,
     executes  |-> Call("getUserName", [connection |-> Value("connectionID"),
                                        user_id    |-> Value("userID")])]

toggle_local_user_mute ==
    [parameter |-> <<>>,
     depends   |-> <<[name |-> "isMuted", call |-> Call("isLocalUserMuted", <<>>)]>>,
     executes  |-> Call("requestLocalUserMute", [muted |-> Negation("isMuted")])]

\* mutant: copied from the other toggle
toggle_local_user_deafOfMuted ==
    [parameter |-> <<>>,
     depends   |-> <<[name |-> "isDeafened", call |-> Call("isLocalUserMuted", <<>>)]>>,
     executes  |-> Call("requestLocalUserDeaf",
                        [deafened |-> Negation("isDeafened")])]

toggle_local_user_deaf ==
    [parameter |-> <<>>,
     depends   |-> <<[name |-> "isDeafened", call |-> Call("isLocalUserDeafened", <<>>)]>>,
     executes  |-> Call("requestLocalUserDeaf",
                        [deafened |-> Negation("isDeafened")])]

\* handleOperation compares the name with each of these
Operations ==
    [move                   |-> move,
     move_local_user        |-> move_local_user,
     get_local_user_name    |-> get_local_user_name,
     toggle_local_user_mute |-> toggle_local_user_mute,
     toggle_local_user_deaf |-> toggle_local_user_deaf]

-----------------------------------------------------------------------------
VARIABLES
    pc,         \* "idle", "querying", "executing" or "ended"
    op,         \* the operation under way
    given,      \* the "parameter" object of the message
    env,        \* the C++ variables: name to value
    step,       \* the dependency that is next
    result,     \* what handleOperation returned or threw
    flags,      \* Mumble: is the local user muted, deafened
    touched,    \* ghost: somebody else set a flag since the operation began
    lookups,    \* ghost: what Mumble answered to this operation
    effects     \* ghost: what this operation made Mumble do

vars == <<pc, op, given, env, step, result, flags, touched, lookups, effects>>

Init ==
    /\ pc = "idle"
    /\ op = Missing
    /\ given = Missing
    /\ env = <<>>
    /\ step = 1
    /\ result = Missing
    /\ flags \in [{"muted", "deafened"} -> BOOLEAN]
    /\ touched = FALSE
    /\ lookups = {}
    /\ effects = <<>>

-----------------------------------------------------------------------------
(***************************************************************************)
(* Parameters.                                                             *)
(***************************************************************************)
\* The objects a message may carry; "comment" is a field no operation knows.
Fields == {"user", "channel", "password", "comment"}

Objects ==
    {object \in UNION {[fields -> Names \cup Passwords \cup {NotAString}] :
                          fields \in SUBSET Fields} :
        \A field \in DOMAIN object :
            object[field] \in {NotAString} \cup
                (IF field = "password" THEN Passwords ELSE Names)}

IsString(value) == value # NotAString

RequiredCount(parameter) ==
    Cardinality({i \in DOMAIN parameter : ~parameter[i].optional})

\* mutant: only the presence of a parameter is checked
ParametersAcceptedUntyped(parameter, object) ==
    /\ object # Missing
    /\ Cardinality(DOMAIN object) >= RequiredCount(parameter)
    /\ \A i \in DOMAIN parameter :
          parameter[i].optional \/ parameter[i].name \in DOMAIN object

\* MESSAGE_ASSERT_FIELD, also for an optional parameter that is present
ParametersAccepted(parameter, object) ==
    /\ object # Missing
    /\ Cardinality(DOMAIN object) >= RequiredCount(parameter)
    /\ \A i \in DOMAIN parameter :
          IF parameter[i].name \in DOMAIN object
          THEN IsString(object[parameter[i].name])
          ELSE parameter[i].optional

ParameterNames(parameter) == {parameter[i].name : i \in DOMAIN parameter}

\* The variable with the default value is the one the rest of the function sees:
\* the value that was given is put in a variable of the same name that lives in
\* the block of the if statement.
Extracted(parameter, object) ==
    [name \in ParameterNames(parameter) |->
        LET p == CHOOSE i \in DOMAIN parameter : parameter[i].name = name
        IN  IF parameter[p].optional THEN parameter[p].default ELSE object[name]]

End(type, value) == pc' = "ended" /\ result' = [type |-> type, value |-> value]

Throw(exception) == End(exception, Missing)
Return(answer)   == End(answer.type, answer.value)

\* handle_<operation>_operation up to the first call.  An operation without
\* parameters makes an exception when it is given one, and does not throw it.
Begin(name, object) ==
    /\ pc = "idle"
    /\ op' = name
    /\ given' = object
    /\ touched' = FALSE
    /\ LET parameter == Operations[name].parameter
       IN  IF parameter = <<>> \/ ParametersAccepted(parameter, object)
           THEN /\ pc' = "querying"
                /\ env' = IF parameter = <<>> THEN <<>> ELSE Extracted(parameter, object)
                /\ UNCHANGED result
           ELSE Throw("InvalidMessageException") /\ UNCHANGED env
    /\ UNCHANGED <<step, flags, lookups, effects>>

\* handleOperation: no such operation
Unknown ==
    /\ pc = "idle"
    /\ Throw("OperationException")
    /\ UNCHANGED <<op, given, env, step, flags, touched, lookups, effects>>

-----------------------------------------------------------------------------
(***************************************************************************)
(* One API call: executeQuery is JSONInterface::process.                   *)
(***************************************************************************)
Evaluated(args) ==
    [a \in DOMAIN args |-> IF args[a].negated THEN ~env[args[a].var]
                           ELSE env[args[a].var]]

\* the check of the handler: a negative number is not number_unsigned
Accepted(args) == "user_id" \in DOMAIN args => args.user_id >= 0

Changes(function) ==
    function \in {"requestUserMove", "requestLocalUserMute", "requestLocalUserDeaf"}

\* what Mumble may return when the call works
Returns(function) ==
    LET values == [getActiveServerConnection |-> Connections,
                   getLocalUserID            |-> UserIds,
                   findUserByName            |-> UserIds,
                   findChannelByName         |-> ChannelIds,
                   isLocalUserMuted          |-> {flags["muted"]},
                   isLocalUserDeafened       |-> {flags["deafened"]},
                   getUserName               |-> Names]
    IN  IF Changes(function) THEN {"success"} ELSE values[function]

\* How a call may come out.  "null" is what process() returns for an answer with
\* the secret of another run of the bridge, "lost" an exception of the pipe.
\* done: Mumble did what it was asked.
Answer(type, value, done) == [type |-> type, value |-> value, done |-> done]

Answers(function, args) ==
    {Answer("lost", Missing, FALSE)} \cup
    IF Accepted(args)
    THEN {Answer(type, value, TRUE) : type \in {"api_call", "null", "lost"},
                                      value \in Returns(function)}
         \cup {IF Changes(function) THEN Answer("api_call", "failure", FALSE)
               ELSE Answer("api_error", Missing, FALSE)}
    ELSE {Answer("error", Missing, FALSE)}

\* the flag has the name of the parameter it is set with
Sets(function, flag) ==
    \/ function = "requestLocalUserMute" /\ flag = "muted"
    \/ function = "requestLocalUserDeaf" /\ flag = "deafened"

Perform(function, args, answer) ==
    /\ effects' = IF answer.done /\ Changes(function)
                  THEN Append(effects, [function |-> function, args |-> args])
                  ELSE effects
    /\ flags' = [flag \in DOMAIN flags |->
                    IF answer.done /\ Sets(function, flag) THEN args[flag]
                    ELSE flags[flag]]

\* checkAPIResponse
ApiResponse(answer) == answer.type = "api_call"

\* mutant: the number is cut to the width and its sign is lost
ConvertedUnsigned(function, value) ==
    IF function \in {"getLocalUserID", "findUserByName"}
    THEN value % (UIntModulus \div 2) ELSE value

\* The variable of a dependency of type number_integer is an int.
Converted(function, value) ==
    IF function \in {"getLocalUserID", "findUserByName"} /\ value >= UIntModulus \div 2
    THEN value - UIntModulus ELSE value

\* A dependency: the call, the check of the response, the variable.
Query ==
    /\ pc = "querying"
    /\ LET dependency == Operations[op].depends[step]
           function   == dependency.call.function
           args       == Evaluated(dependency.call.args)
       IN  \E answer \in Answers(function, args) :
              /\ Perform(function, args, answer)
              /\ IF ApiResponse(answer)
                 THEN /\ env' = [x \in DOMAIN env \cup {dependency.name} |->
                                    IF x = dependency.name
                                    THEN Converted(function, answer.value) ELSE env[x]]
                      /\ lookups' = lookups \cup {[function |-> function, args |-> args,
                                                   value |-> answer.value]}
                      /\ step' = step + 1
                      /\ pc' = IF step = Len(Operations[op].depends) THEN "executing"
                               ELSE "querying"
                      /\ UNCHANGED result
                 ELSE /\ Throw(IF answer.type = "lost" THEN "TimeoutException"
                               ELSE "OperationException")
                      /\ UNCHANGED <<env, lookups, step>>
    /\ UNCHANGED <<op, given, touched>>

\* mutant: the last response is checked like the others
ExecuteChecked ==
    /\ pc = "executing"
    /\ LET function == Operations[op].executes.function
           args     == Evaluated(Operations[op].executes.args)
       IN  \E answer \in Answers(function, args) :
              /\ Perform(function, args, answer)
              /\ IF answer.type = "lost" THEN Throw("TimeoutException")
                 ELSE IF ApiResponse(answer) THEN Return(answer)
                 ELSE Throw("OperationException")
    /\ UNCHANGED <<op, given, env, step, touched, lookups>>

\* The last call: its response is the result, whatever it says.
Execute ==
    /\ pc = "executing"
    /\ LET function == Operations[op].executes.function
           args     == Evaluated(Operations[op].executes.args)
       IN  \E answer \in Answers(function, args) :
              /\ Perform(function, args, answer)
              /\ IF answer.type = "lost" THEN Throw("TimeoutException")
                 ELSE Return(answer)
    /\ UNCHANGED <<op, given, env, step, touched, lookups>>

\* the program ends; the user may start it again
Exit ==
    /\ pc = "ended"
    /\ pc' = "idle"
    /\ op' = Missing
    /\ given' = Missing
    /\ env' = <<>>
    /\ step' = 1
    /\ result' = Missing
    /\ touched' = FALSE
    /\ lookups' = {}
    /\ effects' = <<>>
    /\ UNCHANGED flags

\* The user of Mumble, or another client of the bridge, sets a flag.
SetByOthers(flag) ==
    /\ flags' = [flags EXCEPT ![flag] = ~@]
    /\ touched' = TRUE
    /\ UNCHANGED <<pc, op, given, env, step, result, lookups, effects>>

Next ==
    \/ \E name \in DOMAIN Operations : \E object \in Objects \cup {Missing} :
          Begin(name, object)
    \/ Unknown \/ Query \/ Execute \/ Exit
    \/ \E flag \in DOMAIN flags : SetByOthers(flag)

Spec == Init /\ [][Next]_vars

-----------------------------------------------------------------------------
(***************************************************************************)
(* Safety.                                                                 *)
(***************************************************************************)
\* Every variable stays in its set.
TypeOK ==
    /\ pc \in {"idle", "querying", "executing", "ended"}
    /\ op \in DOMAIN Operations \cup {Missing}
    /\ given \in Objects \cup {Missing}
    /\ \A x \in DOMAIN env :
          /\ x \in {"isMuted", "isDeafened"} => env[x] \in BOOLEAN
          /\ x = "connectionID" => env[x] \in Connections
          /\ x = "channelID" => env[x] \in ChannelIds
          /\ x = "userID" => env[x] \in -(UIntModulus \div 2) .. (UIntModulus \div 2 - 1)
          /\ x \in Fields => env[x] \in Names \cup Passwords \cup {EmptyString}
    /\ step \in 1 .. 4
    /\ result = Missing \/
          result.type \in {"api_call", "api_error", "error", "null",
                           "InvalidMessageException", "OperationException",
                           "TimeoutException"}
    /\ flags \in [{"muted", "deafened"} -> BOOLEAN]
    /\ touched \in BOOLEAN
    /\ Cardinality(lookups) <= 3
    /\ Len(effects) <= 1

\* What the caller is told about the outcome is true: an operation that fails with
\* a message or a code, whichever check, lookup or call failed, has changed
\* nothing, and one that reports success has made its change, once.  Only a
\* timeout or an answer with a foreign secret leave it open.
ResultTellsEffect ==
    pc = "ended" =>
        /\ \/ result.type \in {"InvalidMessageException", "OperationException",
                               "api_error", "error"}
           \/ result.value = "failure"
           => effects = <<>>
        /\ result.value = "success" /\ result.type = "api_call" => Len(effects) = 1

\* The ids with which Mumble is called are ids Mumble returned to this operation,
\* for the names the user gave and on the server the call goes to, although they
\* pass through a narrower type and the active server may change between calls.
ActsOnWhatWasFound ==
    \A i \in DOMAIN effects : effects[i].function = "requestUserMove" =>
        LET args == effects[i].args
            Found(function, looked, value) ==
                [function |-> function, args |-> looked, value |-> value] \in lookups
        IN  /\ Found("findChannelByName",
                     [connection |-> args.connection, channel_name |-> given.channel],
                     args.channel_id)
            /\ IF op = "move"
               THEN Found("findUserByName",
                          [connection |-> args.connection, user_name |-> given.user],
                          args.user_id)
               ELSE Found("getLocalUserID", [connection |-> args.connection],
                          args.user_id)

\* the flag an operation is named for
Toggles(flag) ==
    \/ flag = "muted" /\ op = "toggle_local_user_mute"
    \/ flag = "deafened" /\ op = "toggle_local_user_deaf"

\* A toggle inverts the flag it is named for and leaves the other one alone, if
\* nobody else sets a flag between its two calls.
ToggleInverts ==
    [][Len(effects') > Len(effects) /\ ~touched =>
          flags' = [flag \in DOMAIN flags |-> IF Toggles(flag) THEN ~flags[flag]
                                              ELSE flags[flag]]]_vars

-----------------------------------------------------------------------------
(***************************************************************************)
(* What the documentation says and the code does not do.                   *)
(***************************************************************************)
\* cli/README.md:103-105, "what parameter it takes (parameters that have default
\* values defined are optional)": a parameter that is given is used.
GivenParameterUsed ==
    \A i \in DOMAIN effects :
        effects[i].function = "requestUserMove" /\ "password" \in DOMAIN given
            => effects[i].args.password = given.password
=============================================================================
