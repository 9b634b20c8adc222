-------------------------- MODULE MCHistoryDownload --------------------------
(* One trading day, downloaded up to three times: whole days, some with      *)
(* four, five and nine rows that are not valid; or whole days without one    *)
(* that is.                                                                  *)
EXTENDS HistoryDownload

SomeAnswers == [raw : {375}, valid : {375, 371, 370, 366}]
InvalidAnswers == [raw : {375}, valid : {375, 366, 0}]
OneDay == {{1}}
=============================================================================
