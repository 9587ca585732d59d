-------------------------------- MODULE SasToken --------------------------------
(***************************************************************************)
(* The token a device authenticates with (prvIoTHubClientGetToken,         *)
(* prvProvClientGetToken and AzureIoT_Base64HMACCalculate).  The string to *)
(* sign, the decoded key, its hash and the encoded signature share the     *)
(* buffer of the password, and the password is written over them while     *)
(* the signature is copied out of its end.                                 *)
(*                                                                         *)
(*    0         used      used + key                size - 48         size *)
(*    | to sign | key     | hash (33) |             | HMAC in Base64     | *)
(*    | password ...                                |                      *)
(***************************************************************************)
EXTENDS ScratchBuffer

CONSTANTS
    PasswordMax,        \* azureiotconfigPASSWORD_MAX
    ToSign, Key, Hash, Signature        \* what the regions hold

HMACBufferLength == 48  \* azureiothubHMACBufferLength, azureiotprovisioning...
HashBufferSize   == 33  \* azureiotBASE64_HASH_BUFFER_SIZE

ASSUME TokenAssumption ==
    /\ PasswordMax \in Nat
    /\ Garbage \notin {ToSign, Key, Hash, Signature}

\* What a call is about: bytes of the string to sign, of the decoded key, of
\* the signature in Base64 and of the password; and whether the key is Base64
\* and the function that hashes succeeds.
Lengths ==
    [used : Nat, key : Nat \ {0}, signature : Nat \ {0}, password : Nat, hashes : BOOLEAN]

BufferLeft(l) == PasswordMax - l.used - HMACBufferLength

\* The checks of both functions, in their order.
Result(l) ==
    IF l.used > PasswordMax THEN "OutOfMemory"
    ELSE IF BufferLeft(l) < 0 THEN "OutOfMemory"
    ELSE IF \/ BufferLeft(l) = 0 \/ l.used = 0          \* invalid arguments
            \/ l.key > BufferLeft(l)
            \/ BufferLeft(l) - l.key < HashBufferSize
            \/ ~l.hashes
            \/ l.signature > HMACBufferLength
         THEN "Failed"
    ELSE IF PasswordMax <= HMACBufferLength THEN "OutOfMemory"
    ELSE IF l.password > PasswordMax - HMACBufferLength THEN "OutOfMemory"
    ELSE "Success"

\* The buffer after each part of a call that succeeds.
AfterToSign(l) == Write({}, 0, l.used, ToSign)
AfterKey(l)    == Write(AfterToSign(l), l.used, l.used + l.key, Key)
AfterHash(l)   == Write(AfterKey(l), l.used + l.key, l.used + l.key + HashBufferSize, Hash)

\* Mutant: the HMAC is encoded right behind the key, over the hash.
HMACBehindKey(l) == l.used + l.key

\* The HMAC is encoded at the end of the buffer.
HMACAt(l) == PasswordMax - HMACBufferLength

AfterHMAC(l)     == Write(AfterHash(l), HMACAt(l), HMACAt(l) + l.signature, Signature)
AfterPassword(l) == Write(AfterHMAC(l), 0, l.password, Garbage)

\* The hash is calculated from the string and the key when its own buffer has
\* been cleared; it is encoded from its buffer; the password takes its last
\* part from the encoded signature when all before it has been written.
TokenIsWhole(l) ==
    /\ Holds(AfterHash(l), 0, l.used, ToSign)
    /\ Holds(AfterHash(l), l.used, l.used + l.key, Key)
    /\ Holds(AfterHMAC(l), l.used + l.key, l.used + l.key + HashBufferSize, Hash)
    /\ Holds(AfterPassword(l), HMACAt(l), HMACAt(l) + l.signature, Signature)
=================================================================================
