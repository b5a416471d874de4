\* Two blocks and more, so that every remainder of the block size occurs twice.
SPECIFICATION ShaSpec
CONSTANT MaxLength = 140
INVARIANTS ShaTypeOK DigestExact
CHECK_DEADLOCK FALSE
