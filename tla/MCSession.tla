----------------------------- MODULE MCSession ------------------------------
(* Small sessions: the lines a client may send, one set per question.       *)
EXTENDS Session
OneToken == <<"PIPELINING">>
OtherWords == {"x", "NOOP"}
CAPA_ == <<"CAPA", CR, LF>>
STAT_ == <<"STAT", CR, LF>>
QUIT_ == <<"QUIT", CR, LF>>
LIST_ == <<"LIST", CR, LF>>
LIST1_ == <<"LIST", SP, "x", CR, LF>>
RETR1_ == <<"RETR", SP, "x", CR, LF>>
NOOP_ == <<"NOOP", CR, LF>>
PlainLines == {STAT_, LIST_, QUIT_, NOOP_}
KnownLines == {STAT_, LIST_, QUIT_}
ArgLines == {LIST_, LIST1_, RETR1_, STAT_}
CapaLines == {CAPA_, STAT_}
PipeLines == {STAT_, LIST_, LIST1_, QUIT_}

InProgress == {"in progress"}
MayFail == {"in progress", "fails"}
AnyConnect == {"in progress", "fails", "at once"}
Fresh == {"zeroed"}
AnyMemory == {"zeroed", "reused"}
=============================================================================
