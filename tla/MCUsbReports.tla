---------------------------- MODULE MCUsbReports ----------------------------
(* Three reports for TLC: the status, one more tracked value and one that  *)
(* is not tracked, through an endpoint of two banks.                       *)
EXTENDS UsbReports

ShortBatch == <<"PRESENTSTATUS", "RUNTIMETOEMPTY", "VOLTAGE">>
ShortTracked == {"PRESENTSTATUS", "RUNTIMETOEMPTY"}
=============================================================================
