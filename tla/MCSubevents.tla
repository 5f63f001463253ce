---------------------------- MODULE MCSubevents ----------------------------
EXTENDS Subevents

MCDates == <<"mon", "tue", "wed", "thu">>
=============================================================================
