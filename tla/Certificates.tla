----------------------------- MODULE Certificates -----------------------------
(***************************************************************************)
(* The certificates of private/net: DecodeCertificates (pem.cpp), the roots*)
(* a system trusts (root_certificates.cpp) and the check of a chain that   *)
(* Windows makes (verify_server_chain.cpp).  A text is a sequence of       *)
(* character codes in which each of the two markers is one symbol.  On     *)
(* Windows the calls of the system are steps: each may fail and leave its  *)
(* error behind, and any of them may write over the last one's.            *)
(***************************************************************************)
EXTENDS Integers, Sequences, SequencesExt, FiniteSets, FiniteSetsExt, Platform

VARIABLES pem,         \* a text to decode
          sources,     \* Linux: what the variables and the bundles lead to
          store,       \* Windows: what the ROOT store's certificates are for
          certCall,    \* the call under way or made last: where it is and its locals
          handles,     \* Windows: the handles it has to give back
          lastError,   \* GetLastError
          firstError   \* history: the error of the first call of the system that failed

certVars == <<pem, sources, store, certCall, handles, lastError, firstError>>

ASSUME CertAssumption == None # "CertOpenStore"    \* None is no call's error

BeginMarker == -1
EndMarker == -2
Spaces == {32, 9, 13, 10}
Padding == 61          \* '='
DerSequenceTag == 48   \* 0x30, which is also the digit 0
NotBase64 == -1
-----------------------------------------------------------------------------
(* pem.cpp *)

ToSextet(char) ==
    CASE char \in 65 .. 90  -> char - 65
      [] char \in 97 .. 122 -> char - 97 + 26
      [] char \in 48 .. 57  -> char - 48 + 52
      [] char = 43          -> 62
      [] char = 47          -> 63
      [] OTHER              -> NotBase64

\* One character more.  Sixteen bits are kept of those accumulated.
DecodeChar(state, char) ==
    LET sextet == ToSextet(char)
        accumulated == (state.accumulated * 64 + sextet) % 65536
        numBits == state.numBits + 6
    IN  CASE ~state.isValid \/ char \in Spaces -> state
          [] state.isValid /\ char = Padding -> [state EXCEPT !.hasPadding = TRUE]
          [] OTHER ->
               IF state.hasPadding \/ sextet = NotBase64 THEN [state EXCEPT !.isValid = FALSE]
               ELSE IF numBits < 8
               THEN [state EXCEPT !.accumulated = accumulated, !.numBits = numBits]
               ELSE [state EXCEPT !.accumulated = accumulated, !.numBits = numBits - 8,
                                  !.bytes = Append(@, (accumulated \div 2^(numBits - 8)) % 256)]

DecodeBase64(text) ==
    FoldLeft(DecodeChar,
             [bytes |-> <<>>, accumulated |-> 0, numBits |-> 0,
              hasPadding |-> FALSE, isValid |-> TRUE],
             text)

\* string_view::find, 0 for npos.
Find(content, marker, from) ==
    LET places == {i \in from .. Len(content) : content[i] = marker}
    IN  IF places = {} THEN 0 ELSE Min(places)

Block(text) ==
    LET decoded == DecodeBase64(text)
    IN  IF decoded.isValid /\ decoded.bytes # <<>> THEN <<decoded.bytes>> ELSE <<>>

DecodeCertificates(content) ==
    LET first == Find(content, BeginMarker, 1)
        blocks[begin \in 0 .. Len(content)] ==
          LET end == Find(content, EndMarker, begin + 1)
          IN  IF begin = 0 \/ end = 0 THEN <<>>
              ELSE Block(SubSeq(content, begin + 1, end - 1))
                   \o blocks[Find(content, BeginMarker, end + 1)]
    IN  IF first = 0 /\ content # <<>> /\ content[1] = DerSequenceTag
        THEN <<content>> ELSE blocks[first]
-----------------------------------------------------------------------------
(* root_certificates.cpp *)

\* A file that is missing, is no regular file or whose size is not known reads as empty; of one that
\* shrinks meanwhile numRead characters are read.
ReadFile(file) ==
    DecodeCertificates(IF file.isFile /\ file.hasSize THEN SubSeq(file.content, 1, file.numRead)
                       ELSE <<>>)

\* Up to the entry at which the folder cannot be read on.
ReadFolder(folder) ==
    FoldLeft(LAMBDA found, file : found \o ReadFile(file), <<>>,
             SubSeq(folder.files, 1, folder.numRead))

\* The first that has any, of what is read in order.
FirstFound(found, next) == IF found = <<>> THEN next ELSE found

HasVariable == sources.envFile # None \/ sources.envFolder # None

ReadLinux ==
    LET bundles == FoldLeft(LAMBDA found, file : FirstFound(found, ReadFile(file)), <<>>,
                            sources.files)
        fromFile == IF sources.envFile = None THEN <<>> ELSE ReadFile(sources.envFile)
        fromFolder == IF sources.envFolder = None THEN <<>> ELSE ReadFolder(sources.envFolder)
    IN  IF HasVariable
        THEN FirstFound(fromFile, fromFolder)
        ELSE FoldLeft(LAMBDA found, folder : FirstFound(found, ReadFolder(folder)), bundles,
                      sources.folders)

NoCall == [op |-> None, pc |-> "idle", found |-> <<>>, unread |-> {}, next |-> 0, result |-> None]

CertReturn(op, found, result) ==
    certCall' = [NoCall EXCEPT !.op = op, !.pc = "returned", !.found = found, !.result = result]

\* A call of the system succeeds; it may set the last error nevertheless.
Succeeds == lastError' \in {lastError, "NotFound", "none"} /\ UNCHANGED firstError

Fails(call) ==
    /\ lastError' = call
    /\ firstError' = IF firstError = None THEN call ELSE firstError

\* One call: what it makes if it succeeds, and how the caller goes on in each case.
Tries(call, made, onSuccess, onFailure) ==
    /\ \/ Succeeds /\ handles' = handles \cup made /\ certCall' = onSuccess
       \/ Fails(call) /\ handles' = handles /\ certCall' = onFailure
    /\ UNCHANGED <<pem, sources, store>>

At(pc) == [certCall EXCEPT !.pc = pc]
Failed(pc) == [certCall EXCEPT !.pc = pc, !.result = lastError']

ReadSystemRootCertificates ==
    /\ certCall.pc = "idle"
    /\ IF OnLinux
       THEN /\ CertReturn("roots", ReadLinux,
                      CASE ReadLinux # <<>> -> None
                        [] ReadLinux = <<>> /\ HasVariable -> "invalid_argument"
                        [] OTHER -> "no_such_file_or_directory")
            /\ UNCHANGED <<pem, sources, store, handles, lastError, firstError>>
       ELSE Tries("CertOpenSystemStoreW", {"store"},
                  [At("enumerate") EXCEPT !.op = "roots"],
                  [Failed("returned") EXCEPT !.op = "roots"])

\* The next certificate; the one before is freed.
CertEnumCertificatesInStore ==
    /\ certCall.pc = "enumerate" /\ Succeeds
    /\ IF certCall.next < Len(store)
       THEN /\ handles' = {"store", "context"}
            /\ certCall' = [certCall EXCEPT !.next = @ + 1, !.pc = "askUsage"]
       ELSE /\ handles' = {"store"}
            /\ certCall' = [certCall EXCEPT !.pc = "closeRoots"]
    /\ UNCHANGED <<pem, sources, store>>

Unread == [certCall EXCEPT !.pc = "enumerate", !.unread = @ \cup {certCall.next}]

\* The two calls of IsForServers: the size, then the list.
AskUsage ==
    /\ certCall.pc = "askUsage"
    /\ Tries("CertGetEnhancedKeyUsage", {}, At("readUsage"), Unread)

\* An empty list is every use or none, which only the last error tells.
ReadUsage ==
    /\ certCall.pc = "readUsage"
    /\ \/ LET usage == store[certCall.next]
          IN  /\ lastError' = IF usage = "every" THEN "NotFound" ELSE "none"
              /\ certCall' = [certCall EXCEPT
                    !.pc = "enumerate",
                    !.found = IF \/ usage \in {"every", "no"} /\ lastError' = "NotFound"
                                 \/ usage = "servers"
                              THEN Append(@, certCall.next) ELSE @]
              /\ UNCHANGED firstError
       \/ Fails("CertGetEnhancedKeyUsage") /\ certCall' = Unread
    /\ UNCHANGED <<pem, sources, store, handles>>

CloseRoots ==
    /\ certCall.pc = "closeRoots" /\ Succeeds
    /\ handles' = {}
    /\ certCall' = [At("returned") EXCEPT
                      !.result = IF certCall.found # <<>> THEN None
                                 ELSE "no_such_file_or_directory"]
    /\ UNCHANGED <<pem, sources, store>>
-----------------------------------------------------------------------------
(* verify_server_chain.cpp *)

\* With the number of certificates the server sent.
VerifyServerChain(numSent) ==
    /\ certCall.pc = "idle"
    /\ IF OnLinux \/ numSent = 0
       THEN CertReturn("verify", <<>>, IF OnLinux THEN "not_supported" ELSE "invalid_argument")
       ELSE certCall' = [certCall EXCEPT !.op = "verify", !.pc = "openStore", !.next = numSent - 1]
    /\ UNCHANGED <<pem, sources, store, handles, lastError, firstError>>

CertOpenStore ==
    /\ certCall.pc = "openStore"
    /\ Tries("CertOpenStore", {"sent"}, At("createContext"), Failed("createContext"))

\* The slip of asking for the store's error only when it is returned.
CertCreateCertificateContextAsksLate ==
    /\ certCall.pc = "createContext"
    /\ Tries("CertCreateCertificateContext", {"server"},
             IF "sent" \in handles THEN At("add") ELSE Failed("free"), Failed("free"))

\* Tried whether there is a store or not; without one the store's error is returned.
CertCreateCertificateContext ==
    /\ certCall.pc = "createContext"
    /\ Tries("CertCreateCertificateContext", {"server"},
             At(IF "sent" \in handles THEN "add" ELSE "free"),
             IF "sent" \in handles THEN Failed("free") ELSE At("free"))

\* One that cannot be read is left out.
CertAddEncodedCertificateToStore ==
    /\ certCall.pc = "add" /\ certCall.next > 0
    /\ lastError' \in {lastError, "CertAddEncodedCertificateToStore"}
    /\ certCall' = [certCall EXCEPT !.next = @ - 1]
    /\ UNCHANGED <<pem, sources, store, handles, firstError>>

\* BuildAndCheck.
CertGetCertificateChain ==
    /\ certCall.pc = "add" /\ certCall.next = 0
    /\ Tries("CertGetCertificateChain", {"chain"}, At("policy"), Failed("free"))

\* The call may fail, or succeed with a verdict.
CheckServerPolicy ==
    /\ certCall.pc = "policy"
    /\ \/ Tries("CertVerifyCertificateChainPolicy", {}, At("free"), Failed("free"))
       \/ /\ firstError' = "refused" /\ lastError' \in {lastError, "NotFound", "none"}
          /\ certCall' = [At("free") EXCEPT !.result = "refused"]
          /\ UNCHANGED <<pem, sources, store, handles>>

\* The chain, then the server's certificate, then the store, each if there is one.
FreeHandle ==
    /\ certCall.pc = "free" /\ Succeeds
    /\ handles' = CASE "chain" \in handles -> handles \ {"chain"}
                    [] "chain" \notin handles /\ "server" \in handles -> handles \ {"server"}
                    [] OTHER -> {}
    /\ certCall' = IF handles' = {} THEN [certCall EXCEPT !.pc = "returned"] ELSE certCall
    /\ UNCHANGED <<pem, sources, store>>
-----------------------------------------------------------------------------
(* What is tried *)

Certs(content, numRead) ==
    [isFile |-> TRUE, hasSize |-> TRUE, content |-> content, numRead |-> numRead]
OneFile == Certs(<<BeginMarker, 65, 65, EndMarker>>, 4)
TwoFile == Certs(<<BeginMarker, 65, 66, EndMarker, BeginMarker, 66, 65, EndMarker>>, 8)
CutFile == Certs(<<BeginMarker, 65, 65, EndMarker>>, 3)
NoFolder == [files |-> <<>>, numRead |-> 0]
RootFiles == {OneFile, TwoFile, CutFile, [OneFile EXCEPT !.isFile = FALSE],
              [OneFile EXCEPT !.hasSize = FALSE]}
RootFolders == {f \in [files : SeqOf({OneFile, TwoFile, CutFile}, 2), numRead : 0 .. 2] :
                  f.numRead <= Len(f.files)}

Bundles(files, folders) ==
    [envFile |-> None, envFolder |-> None, files |-> files, folders |-> folders]

RootSources ==
    {Bundles(<<f, g>>, <<d, NoFolder>>) : f, g \in RootFiles, d \in RootFolders}
    \cup {[Bundles(<<OneFile>>, <<>>) EXCEPT !.envFile = f, !.envFolder = d] :
             f \in RootFiles \cup {None}, d \in RootFolders \cup {None}}

\* Texts of markers and bodies in any order, one block with any body at the alphabet's edges, and
\* what starts as a certificate does.
PemTexts ==
    {FlattenSeq(pieces) : pieces \in SeqOf({<<BeginMarker>>, <<EndMarker>>, <<48, 65>>, <<42>>}, 6)}
    \cup {<<BeginMarker>> \o body \o <<EndMarker>> :
             body \in SeqOf({64, 65, 90, 91, 96, 97, 122, 123, 47, 48, 57, 58, 43, 61, 10}, 3)
                      \cup [1 .. 4 -> {47, 65, 57, 61, 32}]}
    \cup {<<DerSequenceTag, 130>> \o FlattenSeq(pieces) :
             pieces \in SeqOf({<<BeginMarker>>, <<EndMarker>>, <<65, 65>>}, 4)}

CertInit ==
    /\ \/ pem \in PemTexts /\ OnLinux /\ sources = Bundles(<<>>, <<>>) /\ store = <<>>
       \/ pem = <<>> /\ OnLinux /\ sources \in RootSources /\ store = <<>>
       \/ pem = <<>> /\ OnWindows /\ sources = Bundles(<<>>, <<>>)
          /\ store \in SeqOf({"every", "no", "servers", "others"}, 2)
    /\ certCall = NoCall /\ handles = {} /\ lastError = "none" /\ firstError = None

CertNext ==
    /\ pem = <<>>
    /\ \/ ReadSystemRootCertificates \/ CertEnumCertificatesInStore
       \/ AskUsage \/ ReadUsage \/ CloseRoots
       \/ \E numSent \in 0 .. 2 : VerifyServerChain(numSent)
       \/ CertOpenStore \/ CertCreateCertificateContext \/ CertAddEncodedCertificateToStore
       \/ CertGetCertificateChain \/ CheckServerPolicy \/ FreeHandle
-----------------------------------------------------------------------------
(* Properties *)

Alphabet == [i \in 1 .. 26 |-> 64 + i] \o [i \in 1 .. 26 |-> 96 + i] \o [i \in 1 .. 10 |-> 47 + i]
              \o <<43, 47>>

\* What base64 says a text stands for: the bits of its digits, eight by eight.
IsBase64(text) ==
    /\ ToSet(text) \subseteq ToSet(Alphabet) \cup Spaces \cup {Padding}
    /\ \A i, j \in DOMAIN text : i < j /\ text[i] = Padding => text[j] \in Spaces \cup {Padding}

BytesOf(text) ==
    LET digits == SelectSeq(text, LAMBDA char : char \in ToSet(Alphabet))
        sextet(k) == (CHOOSE i \in DOMAIN Alphabet : Alphabet[i] = digits[k]) - 1
        bit(k) == (sextet(k \div 6 + 1) \div 2^(5 - (k % 6))) % 2
    IN  [i \in 1 .. (6 * Len(digits)) \div 8 |->
           MapThenSumSet(LAMBDA b : bit(8 * (i - 1) + b) * 2^(7 - b), 0 .. 7)]

\* A block runs from a begin that is not itself in a block to the first end after it.
Opens(text, i) ==
    /\ text[i] = BeginMarker
    /\ \A k \in 1 .. i - 1 : text[k] = BeginMarker => EndMarker \in ToSet(SubSeq(text, k, i))
Closes(text, i, j) == i < j /\ text[j] = EndMarker /\ EndMarker \notin ToSet(SubSeq(text, i, j - 1))

\* The tag of a sequence and a length of two bytes, as any certificate starts; no text has 130 in it.
StartsAsCertificate(content) == Len(content) >= 2 /\ SubSeq(content, 1, 2) = <<DerSequenceTag, 130>>

\* DecodeCertificates gives, in their order, the bytes that each block's base64 stands for, and
\* leaves out blocks that are unfinished, empty or not base64.  Of a content without a begin it gives
\* the whole if that starts as a certificate does, and nothing if its first byte is not the tag.  It
\* looks at no more than that byte, so it gives the whole of a text that starts with the digit 0 too,
\* which its comment says gives none: of such a text this says nothing.
PemIsDecoded ==
    LET places == 1 .. Len(pem)
        isBlock(b) == Opens(pem, b[1]) /\ Closes(pem, b[1], b[2])
        blocks == SetToSortSeq({b \in places \X places : isBlock(b)}, LAMBDA b, c : b[1] < c[1])
        bodies == [i \in DOMAIN blocks |-> SubSeq(pem, blocks[i][1] + 1, blocks[i][2] - 1)]
        bytes(body) == IF IsBase64(body) THEN BytesOf(body) ELSE <<>>
        found == [i \in DOMAIN bodies |-> bytes(bodies[i])]
        hasBegin == BeginMarker \in ToSet(pem)
    IN  /\ hasBegin => DecodeCertificates(pem) = SelectSeq(found, LAMBDA b : b # <<>>)
        /\ ~hasBegin /\ StartsAsCertificate(pem) => DecodeCertificates(pem) = <<pem>>
        /\ ~hasBegin /\ (pem = <<>> \/ Head(pem) # DerSequenceTag) => DecodeCertificates(pem) = <<>>

\* The roots are those of the first source that has any, and the bundles are no source if a variable
\* is set; on Windows those for servers, whose usage could be read.  Without any there is an error.
RootsAreFound ==
    LET isFit(i) == store[i] \in {"every", "servers"} /\ i \notin certCall.unread
        file(f) == IF f = None THEN <<>> ELSE ReadFile(f)
        folder(f) == IF f = None THEN <<>> ELSE ReadFolder(f)
        files == IF HasVariable THEN <<sources.envFile>> ELSE sources.files
        folders == IF HasVariable THEN <<sources.envFolder>> ELSE sources.folders
        having == SelectSeq([i \in DOMAIN files |-> file(files[i])]
                              \o [i \in DOMAIN folders |-> folder(folders[i])], LAMBDA c : c # <<>>)
    IN  certCall.pc = "returned" /\ certCall.op = "roots" =>
          /\ (certCall.result = None) = (certCall.found # <<>>)
          /\ OnLinux => certCall.found = IF having = <<>> THEN <<>> ELSE Head(having)
          /\ OnWindows /\ firstError # "CertOpenSystemStoreW" =>
                certCall.found = SelectSeq([i \in DOMAIN store |-> i], isFit)

\* VerifyServerChain on Windows accepts a chain only if every call it rests on succeeded and the
\* policy agreed; else its error is that of the first call that failed, although every later call,
\* those that give the handles back among them, may set the last error again.
VerdictIsOfItsCall ==
    certCall.pc = "returned" /\ certCall.op = "verify" =>
       certCall.result \in {"not_supported", "invalid_argument", firstError}

\* Whatever failed, nothing is left open when a call returns.
CertificatesAreReleased == certCall.pc = "returned" => handles = {}
=============================================================================
