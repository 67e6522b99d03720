------------------------------ MODULE MCChannel ------------------------------
EXTENDS ChannelProps
CONSTANTS a, b, s1, s2, s3
=============================================================================
