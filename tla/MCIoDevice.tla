----------------------------- MODULE MCIoDevice -----------------------------
EXTENDS IoDevice
MCFiles == {<<1, CR, LF, 1>>}
MCWrites == {<<1>>}
=============================================================================
