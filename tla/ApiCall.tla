------------------------------ MODULE ApiCall ------------------------------
(***************************************************************************)
(* The execution of an api_call message: the constructor of APICall, which *)
(* checks the body of the message, and the handle_* function of the named  *)
(* function (APICall_handleImpl.cpp, generated from the Mumble API by      *)
(* scripts/generate_APICall_implementation.py), which counts and checks    *)
(* the parameters, converts them, calls Mumble and wraps the result.       *)
(*                                                                         *)
(* The handlers differ in their parameters and in how a failure comes back *)
(* to them: they are a table here.  A JSON value stands for a class of     *)
(* values that the checks and conversions of nlohmann::json tell apart.    *)
(***************************************************************************)
EXTENDS Integers, Sequences, FiniteSets

CONSTANTS
    Values,         \* the classes of JSON values a message may carry
    MaxExtra,       \* bound: fields in "parameter" that the handler ignores
    Missing,        \* a field that is absent or, in a body, of the wrong type
    None            \* no message, no answer, no return value

JsonValues == {"negative", "small", "huge", "float", "string", "boolean",
               "numbers", "mixed", "null"}

ASSUME ConstantsAssumption == Values \subseteq JsonValues /\ MaxExtra \in Nat

(***************************************************************************)
(* The handlers.  A parameter is the C++ type it is converted to; failure  *)
(* is how the call to Mumble fails: "exception" (MumbleAPIException),      *)
(* "code" (returned like a value) or "optional" (no value).                *)
(***************************************************************************)
Handler(params, failure, returns) ==
    [params |-> params, failure |-> failure, returns |-> returns]

Getter(params) == Handler(params, "exception", TRUE)
Setter(params) == Handler(params, "exception", FALSE)
Request(params) == Handler(params, "code", TRUE)
Finder(params) == Handler(params, "optional", TRUE)

ConnectionHandlers ==
    {<<"freeMemory", Setter(<<"pointer">>)>>,
     <<"getActiveServerConnection", Getter(<<>>)>>,
     <<"isConnectionSynchronized", Getter(<<"connection">>)>>}

NameHandlers ==
    {<<"getLocalUserID", Getter(<<"connection">>)>>,
     <<"getUserName", Getter(<<"connection", "userid">>)>>,
     <<"getChannelName", Getter(<<"connection", "channelid">>)>>}

ListHandlers ==
    {<<"getAllUsers", Getter(<<"connection">>)>>,
     <<"getAllChannels", Getter(<<"connection">>)>>,
     <<"getChannelOfUser", Getter(<<"connection", "userid">>)>>}

MembershipHandlers ==
    {<<"getUsersInChannel", Getter(<<"connection", "channelid">>)>>,
     <<"getLocalUserTransmissionMode", Getter(<<>>)>>,
     <<"isUserLocallyMuted", Getter(<<"connection", "userid">>)>>}

LocalUserHandlers ==
    {<<"isLocalUserMuted", Getter(<<>>)>>,
     <<"isLocalUserDeafened", Getter(<<>>)>>,
     <<"getUserHash", Getter(<<"connection", "userid">>)>>}

DescriptionHandlers ==
    {<<"getServerHash", Getter(<<"connection">>)>>,
     <<"getUserComment", Getter(<<"connection", "userid">>)>>,
     <<"getChannelDescription", Getter(<<"connection", "channelid">>)>>}

RequestHandlers ==
    {<<"requestLocalUserTransmissionMode", Request(<<"transmission_mode">>)>>,
     <<"requestUserMove",
        Request(<<"connection", "userid", "channelid", "string">>)>>,
     <<"requestMicrophoneActivationOvewrite", Request(<<"bool">>)>>,
     <<"requestLocalMute", Request(<<"connection", "userid", "bool">>)>>}

LocalRequestHandlers ==
    {<<"requestLocalUserMute", Request(<<"bool">>)>>,
     <<"requestLocalUserDeaf", Request(<<"bool">>)>>,
     <<"requestSetLocalUserComment", Request(<<"connection", "string">>)>>}

FindHandlers ==
    {<<"findUserByName", Getter(<<"connection", "string">>)>>,
     <<"findUserByName_noexcept", Finder(<<"connection", "string">>)>>,
     <<"findChannelByName", Getter(<<"connection", "string">>)>>}

SettingHandlers1 ==
    {<<"findChannelByName_noexcept", Finder(<<"connection", "string">>)>>,
     <<"getMumbleSetting_bool", Getter(<<"settings_key">>)>>,
     <<"getMumbleSetting_int", Getter(<<"settings_key">>)>>}

SettingHandlers2 ==
    {<<"getMumbleSetting_double", Getter(<<"settings_key">>)>>,
     <<"getMumbleSetting_string", Getter(<<"settings_key">>)>>,
     <<"setMumbleSetting_bool", Setter(<<"settings_key", "bool">>)>>}

SettingHandlers3 ==
    {<<"setMumbleSetting_int", Setter(<<"settings_key", "int">>)>>,
     <<"setMumbleSetting_double", Setter(<<"settings_key", "double">>)>>,
     <<"setMumbleSetting_string", Setter(<<"settings_key", "string">>)>>}

DataHandlers ==
    {<<"sendData", Setter(<<"connection", "userids", "bytes", "string">>)>>,
     <<"log", Setter(<<"string">>)>>,
     <<"log_noexcept", Request(<<"string">>)>>}

SampleHandlers ==
    {<<"playSample", Setter(<<"string">>)>>}

\* the chain of comparisons in execute()
Chain ==
    ConnectionHandlers \cup NameHandlers \cup ListHandlers \cup MembershipHandlers
        \cup LocalUserHandlers \cup DescriptionHandlers \cup RequestHandlers
        \cup LocalRequestHandlers \cup FindHandlers \cup SettingHandlers1
        \cup SettingHandlers2 \cup SettingHandlers3 \cup DataHandlers
        \cup SampleHandlers

Handlers ==
    [f \in {entry[1] : entry \in Chain} |->
        (CHOOSE entry \in Chain : entry[1] = f)[2]]

s_allFunctions ==
    {"freeMemory", "getActiveServerConnection", "isConnectionSynchronized",
     "getLocalUserID", "getUserName", "getChannelName", "getAllUsers",
     "getAllChannels", "getChannelOfUser", "getUsersInChannel",
     "getLocalUserTransmissionMode", "isUserLocallyMuted", "isLocalUserMuted",
     "isLocalUserDeafened", "getUserHash", "getServerHash", "getUserComment",
     "getChannelDescription", "requestLocalUserTransmissionMode",
     "requestUserMove", "requestMicrophoneActivationOvewrite",
     "requestLocalMute", "requestLocalUserMute", "requestLocalUserDeaf",
     "requestSetLocalUserComment", "findUserByName", "findUserByName_noexcept",
     "findChannelByName", "findChannelByName_noexcept", "getMumbleSetting_bool",
     "getMumbleSetting_int", "getMumbleSetting_double",
     "getMumbleSetting_string", "setMumbleSetting_bool", "setMumbleSetting_int",
     "setMumbleSetting_double", "setMumbleSetting_string", "sendData", "log",
     "log_noexcept", "playSample"}

\* mutant: a function without parameters is left out of the set
NoParamWithoutMuted ==
    {"getActiveServerConnection", "getLocalUserTransmissionMode",
     "isLocalUserDeafened"}

s_noParamFunctions ==
    {"getActiveServerConnection", "getLocalUserTransmissionMode",
     "isLocalUserMuted", "isLocalUserDeafened"}

-----------------------------------------------------------------------------
(***************************************************************************)
(* Checks (MESSAGE_ASSERT_FIELD with the type that getJsonType gives for   *)
(* the C++ type) and conversions (nlohmann's get<T>()).                    *)
(***************************************************************************)
Integral == {"negative", "small", "huge"}

Texts == {"string", "transmission_mode", "settings_key"}

\* mutant: a signed number passes for an unsigned one
AcceptedSigned(type) ==
    {v \in JsonValues :
        \/ type \in {"connection", "channelid", "int", "userid", "pointer"}
              /\ v \in Integral
        \/ type \in Texts /\ v = "string"
        \/ type \in {"userids", "bytes"} /\ v \in {"numbers", "mixed"}
        \/ type = "bool" /\ v = "boolean"
        \/ type = "double" /\ v = "float"}

\* the values that pass the check of a parameter of this type
Accepted(type) ==
    {v \in JsonValues :
        \/ type \in {"connection", "channelid", "int"} /\ v \in Integral
        \/ type \in {"userid", "pointer"} /\ v \in {"small", "huge"}
        \/ type \in Texts /\ v = "string"
        \/ type \in {"userids", "bytes"} /\ v \in {"numbers", "mixed"}
        \/ type = "bool" /\ v = "boolean"
        \/ type = "double" /\ v = "float"}

\* get<T>() raises json::type_error: an enumeration is read from a number only,
\* a vector only from elements that convert.
Raises(type, value) ==
    \/ type \in {"transmission_mode", "settings_key"} /\ value = "string"
    \/ type \in {"userids", "bytes"} /\ value = "mixed"

\* What get<T>() returns: a number too wide for a 32-bit type is truncated.
Converted(type, value) ==
    IF value = "huge" /\ type # "pointer" THEN "truncated" ELSE value

-----------------------------------------------------------------------------
VARIABLES
    msg,        \* the body of the api_call message
    stage,      \* where its execution is
    args,       \* the parameters converted so far
    calls,      \* ghost: the calls made to Mumble for this message
    answer      \* what the caller of execute() gets

vars == <<msg, stage, args, calls, answer>>

\* "function": a name, an unknown name, or not a string; "parameter": an object
\* with these fields (and extra ones), or no object at all.  A function without
\* parameters does not look at it.
Fields(f) == [fields : [1 .. Len(Handlers[f].params) -> Values \cup {Missing}],
              extra  : 0 .. MaxExtra]

Init ==
    /\ msg = None
    /\ stage = "idle"
    /\ args = <<>>
    /\ calls = <<>>
    /\ answer = None

Params == Handlers[msg.function].params

\* parameter.size()
Count ==
    Cardinality({i \in DOMAIN msg.parameter.fields :
                    msg.parameter.fields[i] # Missing}) + msg.parameter.extra

Finish(type, value) ==
    /\ stage' = "answered"
    /\ answer' = [type |-> type, value |-> value]
    /\ UNCHANGED msg

\* InvalidMessageException, and json::type_error or std::invalid_argument
Refuse == Finish("invalid", None) /\ UNCHANGED <<args, calls>>
Raise  == Finish("raised", None) /\ UNCHANGED <<args, calls>>

\* processMessage has authorized the message; its body is any.
Receive ==
    /\ stage = "idle"
    /\ \/ msg' = [function |-> Missing, parameter |-> Missing]
       \/ msg' = [function |-> "unknown", parameter |-> Missing]
       \/ \E f \in s_allFunctions :
             \/ msg' = [function |-> f, parameter |-> Missing]
             \/ \E fields \in Fields(f) :
                   msg' = [function |-> f, parameter |-> fields]
    /\ stage' = "construct"
    /\ UNCHANGED <<args, calls, answer>>

\* APICall::APICall
Construct ==
    /\ stage = "construct"
    /\ IF \/ msg.function \notin s_allFunctions
          \/ msg.function \notin s_noParamFunctions /\ msg.parameter = Missing
       THEN Refuse
       ELSE stage' = "dispatch" /\ UNCHANGED <<msg, args, calls, answer>>

\* execute(): a handler without parameters goes straight to the call
Dispatch ==
    /\ stage = "dispatch"
    /\ IF msg.function \notin DOMAIN Handlers
       THEN Raise
       ELSE /\ stage' = IF Params = <<>> THEN "invoke" ELSE "check"
            /\ UNCHANGED <<msg, args, calls, answer>>

\* the number of parameters, then each of them
Check ==
    /\ stage = "check"
    /\ IF /\ Count = Len(Params)
          /\ \A i \in DOMAIN Params :
                /\ msg.parameter.fields[i] # Missing
                /\ msg.parameter.fields[i] \in Accepted(Params[i])
       THEN stage' = "convert" /\ UNCHANGED <<msg, args, calls, answer>>
       ELSE Refuse

\* one parameter after the other
Convert ==
    /\ stage = "convert"
    /\ Len(args) < Len(Params)
    /\ LET i == Len(args) + 1
           value == msg.parameter.fields[i]
       IN  IF Raises(Params[i], value)
           THEN Raise
           ELSE /\ args' = Append(args, Converted(Params[i], value))
                /\ stage' = IF i = Len(Params) THEN "invoke" ELSE "convert"
                /\ UNCHANGED <<msg, calls, answer>>

\* mutant: the result of a call that returns a code is not passed on
ResponseWithoutCode(handler, result) ==
    IF result = "success" \/ handler.failure = "code"
    THEN [type |-> "api_call", value |-> None]
    ELSE [type |-> IF handler.failure = "exception" THEN "api_error"
                   ELSE "api_error_optional",
          value |-> None]

\* An exception or a missing value has a response of its own; a code is a return
\* value like any other.
Response(handler, result) ==
    IF result = "success" \/ handler.failure = "code"
    THEN [type |-> "api_call", value |-> IF handler.returns THEN result ELSE None]
    ELSE [type |-> IF handler.failure = "exception" THEN "api_error"
                   ELSE "api_error_optional",
          value |-> None]

\* mutant: the exception of a call that fails is not caught
InvokeUncaught ==
    /\ stage = "invoke"
    /\ \E result \in {"success", "failure"} :
          LET handler  == Handlers[msg.function]
              response == Response(handler, result)
          IN  /\ calls' = Append(calls, [function |-> msg.function, args |-> args,
                                            result |-> result])
              /\ UNCHANGED args
              /\ IF result = "failure" /\ handler.failure = "exception"
                 THEN Finish("raised", None)
                 ELSE Finish(response.type, response.value)

\* Mumble does what it is asked, or not, and the handler wraps the result.
Invoke ==
    /\ stage = "invoke"
    /\ \E result \in {"success", "failure"} :
          LET response == Response(Handlers[msg.function], result)
          IN  /\ calls' = Append(calls, [function |-> msg.function, args |-> args,
                                            result |-> result])
              /\ UNCHANGED args
              /\ Finish(response.type, response.value)

\* mutant: what was converted for the message is kept for the next one
ForgetAnswerOnly ==
    /\ stage = "answered"
    /\ msg' = None
    /\ stage' = "idle"
    /\ answer' = None
    /\ UNCHANGED <<args, calls>>

\* The answer has been written; nothing of the message remains.
Forget ==
    /\ stage = "answered"
    /\ msg' = None
    /\ stage' = "idle"
    /\ args' = <<>>
    /\ calls' = <<>>
    /\ answer' = None

Next ==
    \/ Receive
    \/ Construct \/ Dispatch \/ Check \/ Convert \/ Invoke \/ Forget

Spec == Init /\ [][Next]_vars

-----------------------------------------------------------------------------
(***************************************************************************)
(* Safety.                                                                 *)
(***************************************************************************)
\* Every variable stays in its set.
TypeOK ==
    /\ msg = None \/
         /\ msg.function \in s_allFunctions \cup {"unknown", Missing}
         /\ msg.parameter = Missing \/ msg.parameter \in Fields(msg.function)
    /\ stage \in {"idle", "construct", "dispatch", "check", "convert", "invoke",
                 "answered"}
    /\ Len(args) <= 4
    /\ Len(calls) <= 1
    /\ answer = None \/
         /\ answer.type \in {"api_call", "api_error", "api_error_optional",
                             "invalid", "raised"}
         /\ answer.value \in {"success", "failure", None}

\* Mumble has been called once when the caller gets a response, and not at all
\* when the message is refused or its execution raises: an error says that
\* nothing happened, whichever check or conversion it comes from.
EffectMatchesAnswer ==
    stage = "answered" =>
        Len(calls) = IF answer.type \in {"invalid", "raised"} THEN 0 ELSE 1

\* the values of a C++ type, as classes
CppValues(type) ==
    {v \in JsonValues \cup {"truncated"} :
        \/ type \in {"connection", "channelid", "int"}
              /\ v \in {"negative", "small", "truncated"}
        \/ type = "userid" /\ v \in {"small", "truncated"}
        \/ type = "pointer" /\ v \in {"small", "huge"}
        \/ type = "string" /\ v = "string"
        \/ type \in {"userids", "bytes"} /\ v = "numbers"
        \/ type = "bool" /\ v = "boolean"
        \/ type = "double" /\ v = "float"}

\* Whatever a client sends, the C++ API is called with as many arguments as it
\* has parameters, each a value of its type that came from the field of that
\* name: nothing that passed the checks is reinterpreted, except that numbers
\* wider than 32 bits are truncated.
CallsWellTyped ==
    \A k \in DOMAIN calls :
        LET params == Handlers[calls[k].function].params
        IN  /\ DOMAIN calls[k].args = DOMAIN params
            /\ \A i \in DOMAIN params :
                  /\ calls[k].args[i] \in CppValues(params[i])
                  /\ calls[k].args[i] \in {msg.parameter.fields[i], "truncated"}

\* A client can tell a call that failed from one that succeeded, however the
\* function reports its failures.
FailureIsVisible ==
    stage = "answered" /\ calls # <<>> /\ calls[1].result = "failure" =>
        answer.type # "api_call" \/ answer.value = "failure"

\* A function without parameters is called whatever else the message holds: the
\* set of these functions agrees with the handlers they are dispatched to.
ParameterlessNeverRefused ==
    /\ stage = "answered"
    /\ msg.function \in s_allFunctions
    /\ Handlers[msg.function].params = <<>>
    => answer.type \notin {"invalid", "raised"}

(***************************************************************************)
(* What the documentation says and the code does not do.                   *)
(***************************************************************************)
\* APICall.h:61-64, "@returns JSON representation of the message describing the
\* status of the invocation": execute() gives an answer for every message that
\* fulfills the requirements.
ExecuteReturns == answer # None => answer.type # "raised"
=============================================================================
