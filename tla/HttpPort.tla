-------------------------------- MODULE HttpPort --------------------------------
(***************************************************************************)
(* The HTTP client of the middleware (ports/coreHTTP/azure_iot_core_http.c) *)
(* with which an application downloads the files of an update, range by    *)
(* range.  The request headers are kept in the handle: a request adds its  *)
(* range to them and only an initialisation takes it away.                 *)
(*                                                                         *)
(* coreHTTP and the server are external: a request fails, or is answered   *)
(* with a status and a body, the part of the file that the range headers   *)
(* ask for or all of it.                                                   *)
(***************************************************************************)
EXTENDS Integers, Sequences

CONSTANTS
    Files,              \* what the server has
    SizeOf,             \* SizeOf[f]: bytes of the file f
    HeaderRoom,         \* range headers that fit into the caller's header buffer
    DataBufferLength,   \* room for the body in the caller's buffer
    MaxInt,             \* 2^31 - 1: sizes and offsets are of type int32_t
    NoBody              \* a pointer that no call has set

ASSUME HttpAssumption == MaxInt \in Nat /\ SizeOf \in [Files -> Nat]

EndOfFile == -1         \* azureiothttpHttpRangeRequestEndOfFile

VARIABLES
    handle,             \* AzureIoTHTTP_t: the request and its range headers
    outData,            \* where *ppucOutData points: bytes of a file, or NoBody
    outLength,          \* *pulOutDataLength
    httpResult          \* what the last call returned

httpVars == <<handle, outData, outLength, httpResult>>

NotInitialised == [method |-> "", file |-> NoBody, ranges |-> << >>]

HttpInit ==
    /\ handle = NotInitialised
    /\ outData = NoBody /\ outLength = 0
    /\ httpResult = 0

\* The codes of AzureIoTHTTPResult_t that the application tells apart.
Success          == 0
InvalidParameter == 1
NetworkError     == 2
InsufficientMemory == 5

\* Bytes [from, to] of a file, as a body carries them.
Bytes(file, from, to) == [file |-> file, from |-> from, to |-> to]
LengthOf(body) == body.to - body.from + 1

(***************************************************************************)
(* AzureIoTHTTP_Init and AzureIoTHTTP_RequestSizeInit.                     *)
(***************************************************************************)
Prepared(method, file) == [method |-> method, file |-> file, ranges |-> << >>]

Initialise(method, file) ==
    /\ handle' = Prepared(method, file)
    /\ httpResult' = Success
    /\ UNCHANGED <<outData, outLength>>

(***************************************************************************)
(* AzureIoTHTTP_Request.                                                   *)
(***************************************************************************)
IsWholeImage(start, end) == start = 0 /\ end = EndOfFile

WithRange(headers, start, end) ==
    IF IsWholeImage(start, end) THEN headers
    ELSE [headers EXCEPT !.ranges = Append(@, <<start, end>>)]

LastByte(file, end) ==
    IF end = EndOfFile \/ end >= SizeOf[file] THEN SizeOf[file] - 1 ELSE end

\* What a server may answer: a range it was asked for, or, without a range or
\* not minding it, the whole file; or an error.
Answers(headers) ==
    {[status |-> 206, body |-> Bytes(headers.file, r[1], LastByte(headers.file, r[2]))] :
        r \in {headers.ranges[i] : i \in {j \in 1 .. Len(headers.ranges) :
                                           headers.ranges[j][1] < SizeOf[headers.file]}}}
    \cup {[status |-> 200, body |-> Bytes(headers.file, 0, SizeOf[headers.file] - 1)],
          [status |-> 404, body |-> NoBody]}

SetsOutputs(status) == status = 206

\* A status that is neither 200 nor 206 becomes status 1 of coreHTTP, which is
\* an invalid parameter.
ResultOf(status) == IF status \in {200, 206} THEN Success ELSE InvalidParameter

\* There may be no room for one more header; the transport may fail.
Request(start, end) ==
    \/ /\ ~IsWholeImage(start, end) /\ Len(handle.ranges) = HeaderRoom
       /\ httpResult' = InsufficientMemory
       /\ UNCHANGED <<handle, outData, outLength>>
    \/ /\ IsWholeImage(start, end) \/ Len(handle.ranges) < HeaderRoom
       /\ handle' = WithRange(handle, start, end)
       /\ \/ httpResult' = NetworkError /\ UNCHANGED <<outData, outLength>>
          \/ \E answer \in Answers(handle') :
               IF answer.body # NoBody /\ LengthOf(answer.body) > DataBufferLength
               THEN /\ httpResult' = InsufficientMemory
                    /\ UNCHANGED <<outData, outLength>>
               ELSE /\ httpResult' = ResultOf(answer.status)
                    /\ IF SetsOutputs(answer.status)
                       THEN outData' = answer.body /\ outLength' = LengthOf(answer.body)
                       ELSE UNCHANGED <<outData, outLength>>

(***************************************************************************)
(* AzureIoTHTTP_RequestSize: the length of the content, as an int32_t, or  *)
(* -1.                                                                     *)
(***************************************************************************)
AsInt32(n) == ((n + MaxInt + 1) % (2 * (MaxInt + 1))) - (MaxInt + 1)

RequestSize ==
    /\ httpResult' \in {AsInt32(SizeOf[handle.file]), -1}
    /\ UNCHANGED <<handle, outData, outLength>>

\* AzureIoTHTTP_Deinit does nothing.
Deinit == httpResult' = Success /\ UNCHANGED <<handle, outData, outLength>>
================================================================================
