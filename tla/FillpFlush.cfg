CONSTANTS
  StreamLen = 3
  FillMax = 2
  FP_TXQ_WATERMARK = 2
  FP_SEND_CACHE = 3
  FP_SEND_BUDGET = 2
  FP_OFO_MAX_BYTES = 2
  FP_PACK_FLUSH_BYTES = 2
SPECIFICATION Spec
INVARIANT FlushIsMemorySafe
