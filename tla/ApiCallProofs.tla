--------------------------- MODULE ApiCallProofs ---------------------------
(***************************************************************************)
(* Proofs about module ApiCall, for any JSON values a message may carry    *)
(* and any number of fields too many: what a client is answered agrees     *)
(* with what was called, and what is called has arguments of its types.    *)
(***************************************************************************)
EXTENDS ApiCall, TLAPS

Types == {"connection", "channelid", "int", "userid", "pointer", "string",
          "transmission_mode", "settings_key", "userids", "bytes", "bool", "double"}

\* What the handlers have in common: at most four parameters of known types; a
\* failure that is a code is returned; and the set of functions without
\* parameters, which the constructor goes by, agrees with their parameters.
Proper(f, h) ==
    /\ h.params \in Seq(Types) /\ Len(h.params) <= 4
    /\ h.failure \in {"exception", "code", "optional"}
    /\ h.failure = "code" => h.returns
    /\ f \in s_noParamFunctions <=> h.params = <<>>

ProperEntries(S) == \A entry \in S : Proper(entry[1], entry[2])

Answerable == {"api_call", "api_error", "api_error_optional", "invalid", "raised"}

-----------------------------------------------------------------------------
(***************************************************************************)
(* The table of the handlers.                                              *)
(***************************************************************************)
\* the lists a handler may have, and with parameters
Lists == {list \in Seq(Types) : Len(list) <= 4}
Filled == Lists \ {<<>>}

LEMMA ListsOfTypes ==
    /\ <<>> \in Lists
    /\ \A a \in Types : <<a>> \in Filled
    /\ \A a, b \in Types : <<a, b>> \in Filled
    /\ \A a, b, c \in Types : <<a, b, c>> \in Filled
    /\ \A a, b, c, d \in Types : <<a, b, c, d>> \in Filled
BY DEF Lists, Filled

LEMMA ProperHandlers ==
    ASSUME NEW f, NEW list \in Lists, f \in s_noParamFunctions <=> list = <<>>
    PROVE  /\ Proper(f, Getter(list)) /\ Proper(f, Setter(list))
           /\ Proper(f, Request(list)) /\ Proper(f, Finder(list))
BY DEF Proper, Getter, Setter, Request, Finder, Handler, Lists

LEMMA FilledHandlers ==
    ASSUME NEW f, NEW list \in Filled, f \notin s_noParamFunctions
    PROVE  /\ Proper(f, Getter(list)) /\ Proper(f, Setter(list))
           /\ Proper(f, Request(list)) /\ Proper(f, Finder(list))
BY ProperHandlers DEF Filled

LEMMA TypeNames ==
    /\ "connection" \in Types /\ "channelid" \in Types /\ "int" \in Types
    /\ "userid" \in Types /\ "pointer" \in Types /\ "string" \in Types
    /\ "transmission_mode" \in Types /\ "settings_key" \in Types /\ "bool" \in Types
    /\ "userids" \in Types /\ "bytes" \in Types /\ "double" \in Types
BY DEF Types

LEMMA ConnectionProper == ProperEntries(ConnectionHandlers)
<1>1. /\ Proper("freeMemory", Setter(<<"pointer">>))
      /\ Proper("getActiveServerConnection", Getter(<<>>))
      /\ Proper("isConnectionSynchronized", Getter(<<"connection">>))
  BY ListsOfTypes, ProperHandlers, FilledHandlers, TypeNames DEF s_noParamFunctions
<1> QED
  BY <1>1 DEF ProperEntries, ConnectionHandlers

LEMMA NameProper == ProperEntries(NameHandlers)
<1>1. /\ Proper("getLocalUserID", Getter(<<"connection">>))
      /\ Proper("getUserName", Getter(<<"connection", "userid">>))
      /\ Proper("getChannelName", Getter(<<"connection", "channelid">>))
  BY ListsOfTypes, FilledHandlers, TypeNames DEF s_noParamFunctions
<1> QED
  BY <1>1 DEF ProperEntries, NameHandlers

LEMMA ListProper == ProperEntries(ListHandlers)
<1>1. /\ Proper("getAllUsers", Getter(<<"connection">>))
      /\ Proper("getAllChannels", Getter(<<"connection">>))
      /\ Proper("getChannelOfUser", Getter(<<"connection", "userid">>))
  BY ListsOfTypes, FilledHandlers, TypeNames DEF s_noParamFunctions
<1> QED
  BY <1>1 DEF ProperEntries, ListHandlers

LEMMA MembershipProper == ProperEntries(MembershipHandlers)
<1>1. /\ Proper("getUsersInChannel", Getter(<<"connection", "channelid">>))
      /\ Proper("getLocalUserTransmissionMode", Getter(<<>>))
      /\ Proper("isUserLocallyMuted", Getter(<<"connection", "userid">>))
  BY ListsOfTypes, ProperHandlers, FilledHandlers, TypeNames DEF s_noParamFunctions
<1> QED
  BY <1>1 DEF ProperEntries, MembershipHandlers

LEMMA LocalUserProper == ProperEntries(LocalUserHandlers)
<1>1. /\ Proper("isLocalUserMuted", Getter(<<>>))
      /\ Proper("isLocalUserDeafened", Getter(<<>>))
      /\ Proper("getUserHash", Getter(<<"connection", "userid">>))
  BY ListsOfTypes, ProperHandlers, FilledHandlers, TypeNames DEF s_noParamFunctions
<1> QED
  BY <1>1 DEF ProperEntries, LocalUserHandlers

LEMMA DescriptionProper == ProperEntries(DescriptionHandlers)
<1>1. /\ Proper("getServerHash", Getter(<<"connection">>))
      /\ Proper("getUserComment", Getter(<<"connection", "userid">>))
      /\ Proper("getChannelDescription", Getter(<<"connection", "channelid">>))
  BY ListsOfTypes, FilledHandlers, TypeNames DEF s_noParamFunctions
<1> QED
  BY <1>1 DEF ProperEntries, DescriptionHandlers

LEMMA RequestProper == ProperEntries(RequestHandlers)
<1>1. /\ Proper("requestLocalUserTransmissionMode", Request(<<"transmission_mode">>))
      /\ Proper("requestUserMove", Request(<<"connection", "userid", "channelid", "string">>))
      /\ Proper("requestMicrophoneActivationOvewrite", Request(<<"bool">>))
      /\ Proper("requestLocalMute", Request(<<"connection", "userid", "bool">>))
  BY ListsOfTypes, FilledHandlers, TypeNames DEF s_noParamFunctions
<1> QED
  BY <1>1 DEF ProperEntries, RequestHandlers

LEMMA LocalRequestProper == ProperEntries(LocalRequestHandlers)
<1>1. /\ Proper("requestLocalUserMute", Request(<<"bool">>))
      /\ Proper("requestLocalUserDeaf", Request(<<"bool">>))
      /\ Proper("requestSetLocalUserComment", Request(<<"connection", "string">>))
  BY ListsOfTypes, FilledHandlers, TypeNames DEF s_noParamFunctions
<1> QED
  BY <1>1 DEF ProperEntries, LocalRequestHandlers

LEMMA FindProper == ProperEntries(FindHandlers)
<1>1. /\ Proper("findUserByName", Getter(<<"connection", "string">>))
      /\ Proper("findUserByName_noexcept", Finder(<<"connection", "string">>))
      /\ Proper("findChannelByName", Getter(<<"connection", "string">>))
  BY ListsOfTypes, FilledHandlers, TypeNames DEF s_noParamFunctions
<1> QED
  BY <1>1 DEF ProperEntries, FindHandlers

LEMMA SettingProper1 == ProperEntries(SettingHandlers1)
<1>1. /\ Proper("findChannelByName_noexcept", Finder(<<"connection", "string">>))
      /\ Proper("getMumbleSetting_bool", Getter(<<"settings_key">>))
      /\ Proper("getMumbleSetting_int", Getter(<<"settings_key">>))
  BY ListsOfTypes, FilledHandlers, TypeNames DEF s_noParamFunctions
<1> QED
  BY <1>1 DEF ProperEntries, SettingHandlers1

LEMMA SettingProper2 == ProperEntries(SettingHandlers2)
<1>1. /\ Proper("getMumbleSetting_double", Getter(<<"settings_key">>))
      /\ Proper("getMumbleSetting_string", Getter(<<"settings_key">>))
      /\ Proper("setMumbleSetting_bool", Setter(<<"settings_key", "bool">>))
  BY ListsOfTypes, FilledHandlers, TypeNames DEF s_noParamFunctions
<1> QED
  BY <1>1 DEF ProperEntries, SettingHandlers2

LEMMA SettingProper3 == ProperEntries(SettingHandlers3)
<1>1. /\ Proper("setMumbleSetting_int", Setter(<<"settings_key", "int">>))
      /\ Proper("setMumbleSetting_double", Setter(<<"settings_key", "double">>))
      /\ Proper("setMumbleSetting_string", Setter(<<"settings_key", "string">>))
  BY ListsOfTypes, FilledHandlers, TypeNames DEF s_noParamFunctions
<1> QED
  BY <1>1 DEF ProperEntries, SettingHandlers3

LEMMA DataProper == ProperEntries(DataHandlers)
<1>1. /\ Proper("sendData", Setter(<<"connection", "userids", "bytes", "string">>))
      /\ Proper("log", Setter(<<"string">>))
      /\ Proper("log_noexcept", Request(<<"string">>))
  BY ListsOfTypes, FilledHandlers, TypeNames DEF s_noParamFunctions
<1> QED
  BY <1>1 DEF ProperEntries, DataHandlers

LEMMA SampleProper == ProperEntries(SampleHandlers)
<1>1. /\ Proper("playSample", Setter(<<"string">>))
  BY ListsOfTypes, FilledHandlers, TypeNames DEF s_noParamFunctions
<1> QED
  BY <1>1 DEF ProperEntries, SampleHandlers
\* The chain of comparisons knows the functions the constructor lets through, and
\* no others, and every handler is proper.
LEMMA HandlerTable ==
    /\ DOMAIN Handlers = s_allFunctions
    /\ \A f \in s_allFunctions : Proper(f, Handlers[f])
<1> DEFINE Named(S) == {entry[1] : entry \in S}
<1>1. ProperEntries(Chain)
  BY ConnectionProper, NameProper, ListProper, MembershipProper, LocalUserProper,
     DescriptionProper, RequestProper, LocalRequestProper, FindProper,
     SettingProper1, SettingProper2, SettingProper3, DataProper, SampleProper
     DEF ProperEntries, Chain
<1>2. /\ Named(ConnectionHandlers) =
            {"freeMemory", "getActiveServerConnection", "isConnectionSynchronized"}
      /\ Named(NameHandlers) = {"getLocalUserID", "getUserName", "getChannelName"}
      /\ Named(ListHandlers) = {"getAllUsers", "getAllChannels", "getChannelOfUser"}
  BY DEF ConnectionHandlers, NameHandlers, ListHandlers
<1>3. /\ Named(MembershipHandlers) =
            {"getUsersInChannel", "getLocalUserTransmissionMode", "isUserLocallyMuted"}
      /\ Named(LocalUserHandlers) =
            {"isLocalUserMuted", "isLocalUserDeafened", "getUserHash"}
      /\ Named(DescriptionHandlers) =
            {"getServerHash", "getUserComment", "getChannelDescription"}
  BY DEF MembershipHandlers, LocalUserHandlers, DescriptionHandlers
<1>4. /\ Named(RequestHandlers) =
            {"requestLocalUserTransmissionMode", "requestUserMove",
             "requestMicrophoneActivationOvewrite", "requestLocalMute"}
      /\ Named(LocalRequestHandlers) =
            {"requestLocalUserMute", "requestLocalUserDeaf",
             "requestSetLocalUserComment"}
      /\ Named(FindHandlers) =
            {"findUserByName", "findUserByName_noexcept", "findChannelByName"}
  BY DEF RequestHandlers, LocalRequestHandlers, FindHandlers
<1>5. /\ Named(SettingHandlers1) =
            {"findChannelByName_noexcept", "getMumbleSetting_bool",
             "getMumbleSetting_int"}
      /\ Named(SettingHandlers2) =
            {"getMumbleSetting_double", "getMumbleSetting_string",
             "setMumbleSetting_bool"}
      /\ Named(SettingHandlers3) =
            {"setMumbleSetting_int", "setMumbleSetting_double",
             "setMumbleSetting_string"}
  BY DEF SettingHandlers1, SettingHandlers2, SettingHandlers3
<1>6. /\ Named(DataHandlers) = {"sendData", "log", "log_noexcept"}
      /\ Named(SampleHandlers) = {"playSample"}
  BY DEF DataHandlers, SampleHandlers
<1>7. Named(Chain) =
         Named(ConnectionHandlers) \cup Named(NameHandlers) \cup Named(ListHandlers)
            \cup Named(MembershipHandlers) \cup Named(LocalUserHandlers)
            \cup Named(DescriptionHandlers) \cup Named(RequestHandlers)
            \cup Named(LocalRequestHandlers) \cup Named(FindHandlers)
            \cup Named(SettingHandlers1) \cup Named(SettingHandlers2)
            \cup Named(SettingHandlers3) \cup Named(DataHandlers)
            \cup Named(SampleHandlers)
  BY DEF Chain
<1> HIDE DEF Named
<1>8. Named(Chain) = s_allFunctions
  BY <1>2, <1>3, <1>4, <1>5, <1>6, <1>7 DEF s_allFunctions
<1>9. DOMAIN Handlers = s_allFunctions
  BY <1>8 DEF Handlers, Named
<1>10. ASSUME NEW f \in s_allFunctions PROVE Proper(f, Handlers[f])
  <2> DEFINE chosen == CHOOSE entry \in Chain : entry[1] = f
  <2>1. \E entry \in Chain : entry[1] = f
    BY <1>8 DEF Named
  <2>2. chosen \in Chain /\ chosen[1] = f
    BY <2>1
  <2>3. Handlers[f] = chosen[2]
    BY <1>8 DEF Handlers, Named
  <2> HIDE DEF chosen
  <2> QED
    BY <1>1, <2>2, <2>3 DEF ProperEntries
<1> QED
  BY <1>9, <1>10
-----------------------------------------------------------------------------
(***************************************************************************)
(* The execution of a message.                                             *)
(***************************************************************************)
\* The body of a message, of which nothing has been checked.
Body ==
    /\ msg.function \in s_allFunctions \cup {"unknown", Missing}
    /\ msg.parameter = Missing \/ msg.parameter \in Fields(msg.function)

\* What the constructor lets through.
Named ==
    /\ msg.function \in s_allFunctions
    /\ Params # <<>> => msg.parameter \in Fields(msg.function)

\* Every parameter has passed its check.
Checked ==
    \A i \in DOMAIN Params : msg.parameter.fields[i] \in Accepted(Params[i])

\* The arguments are those parameters, converted.
ArgsConverted ==
    /\ DOMAIN args \subseteq DOMAIN Params
    /\ \A i \in DOMAIN args :
          /\ ~Raises(Params[i], msg.parameter.fields[i])
          /\ args[i] = Converted(Params[i], msg.parameter.fields[i])

\* The message was refused, or its execution raised: nothing was called, and the
\* function is not one without parameters.
Turned ==
    /\ calls = <<>>
    /\ answer.type \in {"invalid", "raised"} /\ answer.value = None
    /\ msg.function \in s_allFunctions => Params # <<>>

\* Mumble was called, and the answer is the response to what it did.
Called ==
    /\ Named /\ Checked /\ ArgsConverted /\ DOMAIN args = DOMAIN Params
    /\ \E result \in {"success", "failure"} :
          /\ calls = <<[function |-> msg.function, args |-> args, result |-> result]>>
          /\ answer = Response(Handlers[msg.function], result)

ApiInv ==
    /\ stage \in {"idle", "construct", "dispatch", "check", "convert", "invoke",
                  "answered"}
    /\ stage = "idle" => msg = None
    /\ stage # "idle" => Body
    /\ args \in Seq(JsonValues \cup {"truncated"}) /\ Len(args) <= 4
    /\ stage \in {"idle", "construct", "dispatch", "check"} => args = <<>>
    /\ stage # "answered" => calls = <<>> /\ answer = None
    /\ stage \in {"dispatch", "check", "convert", "invoke"} => Named
    /\ stage \in {"check", "convert"} => Params # <<>>
    /\ stage \in {"convert", "invoke"} => Checked /\ ArgsConverted
    /\ stage = "convert" => Len(args) < Len(Params)
    /\ stage = "invoke" => DOMAIN args = DOMAIN Params
    /\ stage = "answered" => Turned \/ Called

\* A value that passes the check of its parameter and is converted without an
\* exception is a value of the type, and the one of the field unless it was too wide.
LEMMA ConversionTyped ==
    ASSUME NEW type \in Types, NEW value \in Accepted(type), ~Raises(type, value)
    PROVE  /\ Converted(type, value) \in CppValues(type)
           /\ Converted(type, value) \in {value, "truncated"}
           /\ Converted(type, value) \in JsonValues \cup {"truncated"}
BY DEF Types, Accepted, Raises, Converted, CppValues, JsonValues, Integral, Texts

\* The parameters of a function that is known.
LEMMA KnownParams ==
    ASSUME msg.function \in s_allFunctions
    PROVE  /\ Params \in Seq(Types) /\ Len(Params) <= 4 /\ DOMAIN Params = 1 .. Len(Params)
           /\ msg.function \in s_noParamFunctions <=> Params = <<>>
BY HandlerTable DEF Params, Proper

\* The response to a call that failed is not that to one that worked.
LEMMA ResponseTells ==
    ASSUME NEW f \in s_allFunctions, NEW result \in {"success", "failure"}
    PROVE  LET response == Response(Handlers[f], result)
           IN  /\ response.type \in {"api_call", "api_error", "api_error_optional"}
               /\ response.value \in {"success", "failure", None}
               /\ result = "failure" =>
                     response.type # "api_call" \/ response.value = "failure"
<1>1. Handlers[f].failure = "code" => Handlers[f].returns
  BY HandlerTable DEF Proper
<1> QED
  BY <1>1 DEF Response

LEMMA InitApiInv == Init => ApiInv
BY DEF Init, ApiInv

LEMMA ReceiveInv == ApiInv /\ Receive => ApiInv'
<1> SUFFICES ASSUME ApiInv, Receive PROVE ApiInv'
  OBVIOUS
<1>1. /\ stage' = "construct" /\ UNCHANGED <<args, calls, answer>>
      /\ args = <<>> /\ calls = <<>> /\ answer = None
  BY DEF Receive, ApiInv
<1>2. Body'
  BY DEF Receive, Body
<1> QED
  BY <1>1, <1>2 DEF ApiInv

\* What a step that leaves the message alone keeps of it.
LEMMA SameMessage ==
    ASSUME UNCHANGED msg
    PROVE  /\ Params' = Params /\ (Body' <=> Body) /\ (Named' <=> Named)
           /\ (Checked' <=> Checked)
           /\ UNCHANGED args => (ArgsConverted' <=> ArgsConverted)
BY DEF Params, Body, Named, Checked, ArgsConverted

\* A message that is refused, or whose execution raises.
LEMMA TurnedInv ==
    ASSUME ApiInv, Refuse \/ Raise, stage \notin {"idle", "answered"},
           msg.function \in s_allFunctions => Params # <<>>
    PROVE  ApiInv'
<1>1. /\ stage' = "answered" /\ UNCHANGED <<msg, args, calls>>
      /\ answer'.type \in {"invalid", "raised"} /\ answer'.value = None
  BY DEF Refuse, Raise, Finish
<1>2. Turned' /\ Body'
  BY <1>1, SameMessage DEF Turned, ApiInv
<1> QED
  BY <1>1, <1>2 DEF ApiInv

LEMMA ConstructInv == ApiInv /\ Construct => ApiInv'
<1> SUFFICES ASSUME ApiInv, Construct PROVE ApiInv'
  OBVIOUS
<1>1. CASE Refuse
  <2>1. \/ msg.function \notin s_allFunctions
        \/ msg.function \notin s_noParamFunctions
    BY <1>1 DEF Construct, Refuse, Finish
  <2> QED
    BY <1>1, <2>1, KnownParams, TurnedInv DEF Construct
<1>2. CASE stage' = "dispatch"
  <2>1. /\ UNCHANGED <<msg, args, calls, answer>> /\ stage = "construct"
        /\ msg.function \in s_allFunctions
        /\ msg.function \in s_noParamFunctions \/ msg.parameter # Missing
    BY <1>2 DEF Construct, Refuse, Finish
  <2>2. Named /\ Body
    BY <2>1, KnownParams DEF Named, ApiInv, Body
  <2> QED
    BY <1>2, <2>1, <2>2, SameMessage DEF ApiInv
<1> QED
  BY <1>1, <1>2 DEF Construct

\* Every function the constructor lets through has a handler.
LEMMA DispatchInv == ApiInv /\ Dispatch => ApiInv'
<1> SUFFICES ASSUME ApiInv, Dispatch PROVE ApiInv'
  OBVIOUS
<1>1. Named /\ Body /\ args = <<>> /\ stage = "dispatch"
  BY DEF ApiInv, Dispatch
<1>2. /\ stage' = IF Params = <<>> THEN "invoke" ELSE "check"
      /\ UNCHANGED <<msg, args, calls, answer>>
  BY <1>1, HandlerTable DEF Dispatch, Named
<1>3. CASE Params = <<>>
  <2>1. Checked /\ ArgsConverted /\ DOMAIN args = DOMAIN Params
    BY <1>1, <1>3 DEF Checked, ArgsConverted
  <2> QED
    BY <1>1, <1>2, <1>3, <2>1, SameMessage DEF ApiInv
<1>4. CASE Params # <<>>
  BY <1>1, <1>2, <1>4, SameMessage DEF ApiInv
<1> QED
  BY <1>3, <1>4

LEMMA CheckInv == ApiInv /\ Check => ApiInv'
<1> SUFFICES ASSUME ApiInv, Check PROVE ApiInv'
  OBVIOUS
<1>1. Named /\ Body /\ args = <<>> /\ stage = "check" /\ Params # <<>>
  BY DEF ApiInv, Check
<1>2. CASE Refuse
  BY <1>1, <1>2, TurnedInv
<1>3. CASE stage' = "convert" /\ UNCHANGED <<msg, args, calls, answer>> /\ Checked
  <2>1. ArgsConverted /\ Len(args) < Len(Params)
    BY <1>1, KnownParams DEF ArgsConverted, Named
  <2> QED
    BY <1>1, <1>3, <2>1, SameMessage DEF ApiInv
<1> QED
  BY <1>2, <1>3 DEF Check, Checked

LEMMA ConvertInv == ApiInv /\ Convert => ApiInv'
<1> SUFFICES ASSUME ApiInv, Convert PROVE ApiInv'
  OBVIOUS
<1> DEFINE i == Len(args) + 1
           value == msg.parameter.fields[i]
<1>1. /\ Named /\ Body /\ Checked /\ ArgsConverted /\ stage = "convert"
      /\ Len(args) < Len(Params) /\ Params # <<>>
      /\ args \in Seq(JsonValues \cup {"truncated"})
  BY DEF ApiInv, Convert
<1>2. /\ Params \in Seq(Types) /\ Len(Params) <= 4 /\ DOMAIN Params = 1 .. Len(Params)
  BY <1>1, KnownParams DEF Named
<1>3. i \in DOMAIN Params /\ Params[i] \in Types /\ value \in Accepted(Params[i])
  BY <1>1, <1>2 DEF Checked
<1>4. CASE Raise
  BY <1>1, <1>4, TurnedInv
<1>5. CASE ~Raises(Params[i], value)
  <2>1. /\ args' = Append(args, Converted(Params[i], value))
        /\ stage' = IF i = Len(Params) THEN "invoke" ELSE "convert"
        /\ UNCHANGED <<msg, calls, answer>>
    BY <1>5 DEF Convert
  <2>2. Converted(Params[i], value) \in JsonValues \cup {"truncated"}
    BY <1>3, <1>5, ConversionTyped
  <2>3. /\ args' \in Seq(JsonValues \cup {"truncated"}) /\ Len(args') = i
        /\ DOMAIN args' = 1 .. i
        /\ \A k \in DOMAIN args : args'[k] = args[k]
        /\ args'[i] = Converted(Params[i], value)
    BY <1>1, <2>1, <2>2
  <2>4. ArgsConverted'
    <3> SUFFICES ASSUME NEW k \in DOMAIN args'
                 PROVE  /\ k \in DOMAIN Params
                        /\ ~Raises(Params[k], msg.parameter.fields[k])
                        /\ args'[k] = Converted(Params[k], msg.parameter.fields[k])
      BY <2>1, SameMessage DEF ArgsConverted
    <3>1. k \in DOMAIN args \/ k = i
      BY <1>1, <2>3
    <3> QED
      BY <1>1, <1>3, <1>5, <2>3, <3>1 DEF ArgsConverted
  <2>5. /\ stage' = "convert" => Len(args') < Len(Params)
        /\ stage' = "invoke" => DOMAIN args' = DOMAIN Params
        /\ Len(args') <= 4 /\ stage' \in {"convert", "invoke"}
    <3>1. Len(args) \in Nat /\ Len(Params) \in Nat /\ i \in Nat /\ i <= Len(Params)
      BY <1>1, <1>2
    <3>2. stage' = "convert" => i < Len(Params)
      BY <2>1, <3>1
    <3>3. (stage' = "invoke" => i = Len(Params)) /\ stage' \in {"convert", "invoke"}
      BY <2>1
    <3>4. Len(args') = i /\ DOMAIN args' = 1 .. i
      BY <2>3
    <3>5. Len(Params) <= 4 /\ DOMAIN Params = 1 .. Len(Params)
      BY <1>2
    <3> HIDE DEF i
    <3>6. stage' = "convert" => Len(args') < Len(Params)
      BY <3>2, <3>4
    <3>7. stage' = "invoke" => DOMAIN args' = DOMAIN Params
      BY <3>3, <3>4, <3>5
    <3>8. Len(args') <= 4
      BY <3>1, <3>4, <3>5
    <3> QED
      BY <3>3, <3>6, <3>7, <3>8
  <2>6. calls' = <<>> /\ answer' = None /\ Body' /\ Named' /\ Checked' /\ Params' = Params
    BY <1>1, <2>1, SameMessage DEF ApiInv
  <2> QED
    BY <1>1, <2>3, <2>4, <2>5, <2>6 DEF ApiInv
<1> QED
  BY <1>4, <1>5 DEF Convert

LEMMA InvokeInv == ApiInv /\ Invoke => ApiInv'
<1> SUFFICES ASSUME ApiInv, Invoke PROVE ApiInv'
  OBVIOUS
<1>1. /\ Named /\ Body /\ Checked /\ ArgsConverted /\ calls = <<>>
      /\ DOMAIN args = DOMAIN Params
  BY DEF ApiInv, Invoke
<1>2. PICK result \in {"success", "failure"} :
         LET response == Response(Handlers[msg.function], result)
         IN  /\ calls' = Append(calls, [function |-> msg.function, args |-> args,
                                           result |-> result])
             /\ UNCHANGED args
             /\ Finish(response.type, response.value)
  BY DEF Invoke
<1>3. /\ stage' = "answered" /\ UNCHANGED <<msg, args>>
      /\ calls' = <<[function |-> msg.function, args |-> args, result |-> result]>>
      /\ answer' = Response(Handlers[msg.function], result)
  BY <1>1, <1>2 DEF Finish, Response
<1>4. Called'
  BY <1>1, <1>3, SameMessage DEF Called
<1> QED
  BY <1>1, <1>3, <1>4, SameMessage DEF ApiInv

LEMMA ApiNextInv == ApiInv /\ [Next]_vars => ApiInv'
<1> SUFFICES ASSUME ApiInv, [Next]_vars PROVE ApiInv'
  OBVIOUS
<1>1. CASE Forget
  BY <1>1 DEF Forget, ApiInv
<1>2. CASE UNCHANGED vars
  BY <1>2, SameMessage DEF vars, ApiInv, Turned, Called
<1> QED
  BY <1>1, <1>2, ReceiveInv, ConstructInv, DispatchInv, CheckInv, ConvertInv, InvokeInv
     DEF Next

-----------------------------------------------------------------------------
\* What the prover keeps: how far a message has come, and what holds of it there.
THEOREM ApiInvariance == Spec => []ApiInv
  BY InitApiInv, ApiNextInv, PTL DEF Spec

\* Every variable stays in its set, whatever a message holds.
THEOREM ApiTypeCorrect == Spec => []TypeOK
<1>1. ApiInv => TypeOK
  <2> SUFFICES ASSUME ApiInv PROVE TypeOK
    OBVIOUS
  <2>1. msg = None \/ Body
    BY DEF ApiInv
  <2>2. Len(calls) <= 1
    <3>1. CASE calls = <<>>
      BY <3>1
    <3>2. CASE Called
      <4>1. PICK call : calls = <<call>>
        BY <3>2 DEF Called
      <4> QED
        BY <4>1
    <3> QED
      BY <3>1, <3>2 DEF ApiInv, Turned
  <2>3. \/ answer = None
        \/ /\ answer.type \in Answerable
           /\ answer.value \in {"success", "failure", None}
    <3>1. CASE stage = "answered" /\ Turned
      BY <3>1 DEF Turned, Answerable
    <3>2. CASE stage = "answered" /\ Called
      BY <3>2, ResponseTells DEF Called, Named, Answerable
    <3> QED
      BY <3>1, <3>2 DEF ApiInv
  <2> QED
    BY <2>1, <2>2, <2>3 DEF ApiInv, TypeOK, Body, Answerable
<1> QED
  BY <1>1, ApiInvariance, PTL

\* Mumble was called once when the caller gets a response, and never when it gets
\* an error, for any message.
THEOREM AnswersTellEffect == Spec => []EffectMatchesAnswer
<1>1. ApiInv => EffectMatchesAnswer
  BY ResponseTells DEF ApiInv, Turned, Called, Named, EffectMatchesAnswer
<1> QED
  BY <1>1, ApiInvariance, PTL

\* The C++ API is called with one value of its type for each parameter, taken from
\* the field of that name, for any message.
THEOREM CallsAreTyped == Spec => []CallsWellTyped
<1>1. ApiInv => CallsWellTyped
  <2> SUFFICES ASSUME ApiInv, NEW k \in DOMAIN calls
               PROVE  LET params == Handlers[calls[k].function].params
                      IN  /\ DOMAIN calls[k].args = DOMAIN params
                          /\ \A i \in DOMAIN params :
                                /\ calls[k].args[i] \in CppValues(params[i])
                                /\ calls[k].args[i] \in
                                      {msg.parameter.fields[i], "truncated"}
    BY DEF CallsWellTyped
  <2>1. Called
    BY DEF ApiInv, Turned
  <2>2. calls[k].function = msg.function /\ calls[k].args = args
    BY <2>1 DEF Called
  <2>3. DOMAIN args = DOMAIN Params /\ Params \in Seq(Types)
    BY <2>1, KnownParams DEF Called, Named
  <2>4. ASSUME NEW i \in DOMAIN Params
        PROVE  /\ args[i] \in CppValues(Params[i])
               /\ args[i] \in {msg.parameter.fields[i], "truncated"}
    <3>1. /\ Params[i] \in Types /\ msg.parameter.fields[i] \in Accepted(Params[i])
          /\ ~Raises(Params[i], msg.parameter.fields[i])
          /\ args[i] = Converted(Params[i], msg.parameter.fields[i])
      BY <2>1, <2>3 DEF Called, Checked, ArgsConverted
    <3> QED
      BY <3>1, ConversionTyped
  <2> QED
    BY <2>2, <2>3, <2>4 DEF Params
<1> QED
  BY <1>1, ApiInvariance, PTL

\* A client can tell a call that failed from one that worked, for every function.
THEOREM FailuresAreVisible == Spec => []FailureIsVisible
<1>1. ApiInv => FailureIsVisible
  BY ResponseTells DEF ApiInv, Turned, Called, Named, FailureIsVisible
<1> QED
  BY <1>1, ApiInvariance, PTL

\* A function without parameters is called whatever the message holds otherwise.
THEOREM ParameterlessAreCalled == Spec => []ParameterlessNeverRefused
<1>1. ApiInv => ParameterlessNeverRefused
  BY ResponseTells DEF ApiInv, Turned, Called, Named, Params, ParameterlessNeverRefused
<1> QED
  BY <1>1, ApiInvariance, PTL
=============================================================================
