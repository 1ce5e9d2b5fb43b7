----------------------------- MODULE BrowserCheck ---------------------------
(***************************************************************************)
(* browsercheck.js, run by index.html: a browser whose version is below    *)
(* the minimum for its engine is told so, any other goes to harness.html.  *)
(* A version is the sequence of its numbers; a browser is what jQuery      *)
(* found in its user agent: the engines, the version, and the version that *)
(* follows "Chrome/", if any.                                              *)
(***************************************************************************)
EXTENDS Naturals, Sequences

NoVersion == <<>>

browserMin ==
    [e \in {"mozilla", "webkit", "v8", "msie", "opera"} |->
        CASE e = "mozilla" -> <<2, 0>> [] e = "webkit" -> <<536, 7>> [] e = "v8" -> <<10, 0>>
          [] e = "msie" -> <<9, 0>> [] e = "opera" -> <<11, 60>>]

\* $.browser, corrected for Chrome, whose engine is not WebKit's.
Corrected(b) ==
    IF b.chrome = NoVersion THEN [engines |-> b.engines, version |-> b.version]
    ELSE [engines |-> (b.engines \ {"webkit"}) \cup {"v8"}, version |-> b.chrome]

Component(v, i) == IF i <= Len(v) THEN v[i] ELSE 0

\* The first of the minimum's components in which the two differ decides.
versionCheck(min, real) ==
    LET check[i \in 1 .. Len(min) + 1] ==
            IF i > Len(min) THEN TRUE
            ELSE IF Component(real, i) < min[i] THEN FALSE
            ELSE IF Component(real, i) > min[i] THEN TRUE
            ELSE check[i + 1]
    IN  check[1]

badBrowser(b) ==
    \E e \in Corrected(b).engines \cap DOMAIN browserMin :
        ~versionCheck(browserMin[e], Corrected(b).version)
=============================================================================
