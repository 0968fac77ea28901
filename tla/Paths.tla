------------------------------- MODULE Paths -------------------------------
(***************************************************************************)
(* The path of one call on its way through the gateway: parsed by net/url, *)
(* made canonical by internal/transport, matched with the path prefix of   *)
(* an allowlist entry by internal/proxy, signed, and written again for the *)
(* target by internal/gateway.  Module Mediator abstracts all this to a    *)
(* set of targets.                                                         *)
(*                                                                         *)
(* A path is a sequence of characters, a path on the wire a sequence of    *)
(* characters and escapes; the boundaries between segments, dot segments   *)
(* and escapes are what the properties are about.                          *)
(***************************************************************************)
EXTENDS Naturals, Sequences, SequencesExt

CONSTANTS
    MaxPath,    \* bound on the length of a request's path after its "/"
    MaxPrefix   \* bound on the length of an allowlist entry's path prefix

ASSUME BoundsAssumption == MaxPath \in Nat /\ MaxPrefix \in Nat

VARIABLES
    stage,      \* how far the call has come
    wire,       \* the path in the request line
    prefix,     \* path_prefix of the agent's allowlist entry
    signed,     \* Request.Path: the path that is decided and signed
    allowed,    \* the decision
    sent        \* the path in the request line that the target gets

vars == <<stage, wire, prefix, signed, allowed, sent>>

(* "%2e" as a character stands for what must not be left in a path once it
   is decoded: an escaped metacharacter, a backslash, a NUL.               *)
Chars == {"/", ".", "a", "%2e"}
AmbiguousChars == {"%2e"}

(* What each character or escape of the wire decodes to, and how net/url
   writes a character of a path.                                           *)
Unescaped == [w \in {"/", ".", "a", "%2f", "%2e", "%252e"} |->
                CASE w = "%2f" -> "/"
                  [] w = "%2e" -> "."
                  [] w = "%252e" -> "%2e"
                  [] OTHER -> w]

Escaped == [c \in Chars |-> IF c = "%2e" THEN "%252e" ELSE c]

Decode(w) == [i \in DOMAIN w |-> Unescaped[w[i]]]
Escape(p) == [i \in DOMAIN p |-> Escaped[p[i]]]

(* url.URL.RawPath: kept only if the path would be written differently.    *)
RawPath(w) == IF Escape(Decode(w)) = w THEN <<>> ELSE w

(* url.URL.EscapedPath: RawPath as long as it is an encoding of the path.  *)
EscapedPath(raw, p) == IF raw # <<>> /\ Decode(raw) = p THEN raw ELSE Escape(p)

-----------------------------------------------------------------------------
Root == <<"/">>

(* The segments between the slashes of a path.                             *)
Extended(segments, c) ==
    IF c = "/" THEN Append(segments, <<>>)
    ELSE Append(Front(segments), Append(Last(segments), c))
Split(p) == FoldLeft(Extended, << <<>> >>, p)

(* The segments that are left when empty ones and dots are dropped, and a
   double dot takes its predecessor with it.                               *)
Taken(steps, segment) ==
    IF segment \in {<<>>, <<".">>} THEN steps
    ELSE IF segment # <<".", ".">> THEN Append(steps, segment)
    ELSE IF steps = <<>> THEN steps ELSE Front(steps)
Resolved(segments) == FoldLeft(Taken, <<>>, segments)
Resolve(p) == Resolved(Split(p))

(* path.Clean of a rooted path.                                            *)
Joined(text, segment) == text \o Root \o segment
Text(steps) == FoldLeft(Joined, <<>>, steps)
Clean(p) == IF Resolve(p) = <<>> THEN Root ELSE Text(Resolve(p))

IsAmbiguous(p) == \E i \in DOMAIN p : p[i] \in AmbiguousChars

(* Slip: the path is made rooted but not cleaned.                          *)
CanonicalUncleaned(p) == IF IsPrefix(Root, p) THEN p ELSE Root \o p

(* CanonicalPath of a path that is not ambiguous.                          *)
Canonical(p) == Clean(IF IsPrefix(Root, p) THEN p ELSE Root \o p)

(* Slip: a prefix of the text is taken for a prefix of the segments.       *)
WithinTextPrefix(path, prefixPath) ==
    IsPrefix(Clean(Root \o prefixPath), Clean(Root \o path))

(* pathWithinPrefix                                                        *)
WithinPrefix(path, prefixPath) ==
    LET cleanPath == Clean(Root \o path)
        cleanPrefix == Clean(Root \o prefixPath)
    IN  \/ cleanPrefix = Root
        \/ cleanPath = cleanPrefix
        \/ IsPrefix(cleanPrefix \o Root, cleanPath)

-----------------------------------------------------------------------------
(* A request line holds no path, or one that begins with a slash.          *)
Init ==
    /\ stage = "received"
    /\ wire \in {<<>>} \cup {Root \o w : w \in BoundedSeq(DOMAIN Unescaped, MaxPath)}
    /\ prefix \in BoundedSeq(Chars, MaxPrefix)
    /\ signed = <<>>
    /\ allowed = FALSE
    /\ sent = <<>>

(* FromRequest: the path is refused or made canonical.                     *)
FromRequest ==
    /\ stage = "received"
    /\ IF IsAmbiguous(Decode(wire))
       THEN stage' = "refused" /\ UNCHANGED signed
       ELSE stage' = "parsed" /\ signed' = Canonical(Decode(wire))
    /\ UNCHANGED <<wire, prefix, allowed, sent>>

(* matches, for an entry of the right method and host.                     *)
Matches ==
    /\ stage = "parsed"
    /\ allowed' = (~IsAmbiguous(signed) /\ WithinPrefix(signed, prefix))
    /\ stage' = IF allowed' THEN "allowed" ELSE "refused"
    /\ UNCHANGED <<wire, prefix, signed, sent>>

(* Slip: the URL of the request is sent on as it came.                     *)
ForwardAsReceived ==
    /\ stage = "allowed"
    /\ sent' = EscapedPath(RawPath(wire), Decode(wire))
    /\ stage' = "sent"
    /\ UNCHANGED <<wire, prefix, signed, allowed>>

(* forward writes the signed path into the URL of the request; the reverse
   proxy and the transport write the URL to the target.                    *)
Forward ==
    /\ stage = "allowed"
    /\ sent' = EscapedPath(RawPath(wire), signed)
    /\ stage' = "sent"
    /\ UNCHANGED <<wire, prefix, signed, allowed>>

(* The call is over.                                                       *)
Done == stage \in {"refused", "sent"} /\ UNCHANGED vars

Next == FromRequest \/ Matches \/ Forward \/ Done

Spec == Init /\ [][Next]_vars

-----------------------------------------------------------------------------
(* The decision is about segments: a call is allowed exactly if its path is
   unambiguous and the segments of the entry's prefix, both resolved, are
   the first segments of the path that the agent wrote.  "/repos" grants
   neither "/repository" nor a path that leaves it with double dots.       *)
DecisionFollowsSegments ==
    stage \in {"allowed", "sent", "refused"} =>
        allowed = (/\ ~IsAmbiguous(Decode(wire))
                   /\ IsPrefix(Resolve(prefix), Resolve(Decode(wire))))

(* Transport and proxy both clean the path; the second time changes nothing,
   so that the path that is matched is the one that is signed (normalize.go:
   the path is decoded and normalized in one place).                       *)
MatchedAsSigned ==
    stage \in {"allowed", "sent"} => Clean(Root \o signed) = signed

(* What the target decodes is the path that was decided and signed, whatever
   escapes the request came with (gateway.go, forward).                    *)
TargetDecodesSigned ==
    stage = "sent" => Decode(sent) = signed

-----------------------------------------------------------------------------
(* A target that splits the path before it decodes the segments, as RFC 3986
   has it, finds the segments that were signed: normalize.go says of
   FromRequest that the request to the target has to be built with the same
   canonical path, or else both sides read different ones.                 *)
TargetSplitsSigned ==
    stage = "sent" =>
        [i \in DOMAIN Split(sent) |-> Decode(Split(sent)[i])] = Split(signed)
=============================================================================
