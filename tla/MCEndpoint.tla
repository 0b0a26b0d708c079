----------------------------- MODULE MCEndpoint -----------------------------
(* The characters, the lines and the commands for the runs of Endpoint.     *)
EXTENDS Endpoint, TLC

MCLetters == {"c", "e", "d", "l", "n", "r"}
MCWides == {"w"}

MCCreate == <<"c">>
MCRemove == <<"r">>
MCEnable == <<"e">>
MCDisable == <<"d">>
MCLogin == <<"l">>
MCLogout == <<"l", "l">>
MCStatus == <<"n", "l">>
MCExit == <<"e", "e">>
MCHelp == <<"n", "n">>

MCArity ==
  MCCreate :> 3 @@ MCRemove :> 2 @@ MCEnable :> 2 @@ MCDisable :> 2
    @@ MCLogin :> 2 @@ MCLogout :> 0 @@ MCStatus :> 0

Name == <<"n">>

\* What a user does with a service, and tries with one that has no name.
Usual ==
  {LineOf(<<MCCreate, name, Name, Name>>) : name \in {<<>>, Name}}
    \cup {LineOf(<<command, name, Name>>) : command \in {MCEnable, MCDisable}, name \in {<<>>, Name}}
    \cup {LineOf(<<MCRemove, Name, Name>>), LineOf(<<MCLogin, Name, Name>>), MCLogout}

\* Commands without parameters, with too many, with two spaces, and the shell's own.
Unusual ==
  {MCEnable, MCDisable, MCStatus, MCExit, MCHelp}
    \cup {MCEnable \o <<Space, Space>> \o Name \o <<Space, "n">>,
           MCDisable \o <<Space>> \o Name \o <<Space, "n", Space, "n">>}

\* All lines of up to three of the characters that matter to the parser, and up to
\* three after a quote.
ShortLines == BoundedSeq({"n", "w"} \cup Special, 3)
                \cup {<<Quote>> \o l : l \in BoundedSeq({"n"} \cup Special, 3)}

MCLines == Usual \cup Unusual \cup ShortLines

Symmetry == Permutations(Readers)

=============================================================================
