------------------------------ MODULE MCJsBench -----------------------------
(* A session over the recording twitter/firefox and a made-up one, sample,  *)
(* with the steps that twitter/firefox lacks, in two modes.                 *)
EXTENDS JsBench

MCbenchmarks == <<"twitter/firefox", "sample">>

MCmodes == [b \in {"*", "sample"} |-> IF b = "*" THEN <<"urem">> ELSE <<"urm", "urv">>]

sample ==
    <<ModernStep,
      CheckStep("call", <<"number", 7>>, 1),
      RegisterStep("s_2", {11, 12, 13}, TRUE),
      CheckStep("seton", <<"NaN">>, 0),
      CheckStep("set", <<"object", "number">>, 0),
      EventStep("s_2", 1),
      EventStep("s_2", 2)>>

MCscript == [b \in {"twitter/firefox", "sample"} |->
                IF b = "sample" THEN sample ELSE twitter_firefox.script]

MCreturns == [b \in {"twitter/firefox", "sample"} |->
                 IF b = "sample" THEN [f \in {} |-> <<>>] ELSE twitter_firefox.returns]

MCweight == [k \in {11, 12, 13, 820, 821} |-> IF k = 12 THEN 1 ELSE 2]

Browser(engines, version, chrome) == [engines |-> engines, version |-> version, chrome |-> chrome]

MCBrowsers ==
    {Browser({"mozilla"}, <<2, 0>>, NoVersion), Browser({"mozilla"}, <<1, 9, 2>>, NoVersion),
     Browser({"webkit"}, <<537>>, NoVersion), Browser({"webkit"}, <<536>>, NoVersion),
     Browser({"webkit"}, <<537, 36>>, <<9, 0, 597>>), Browser({"webkit"}, <<535, 1>>, <<14, 0>>),
     Browser({"opera"}, <<11, 7>>, NoVersion), Browser({"opera"}, <<12>>, NoVersion),
     Browser({}, <<1, 0>>, NoVersion)}
=============================================================================
